---- MODULE Spec2Model ----
(***************************************************************************)
(* TaskClient.run_sample of src/src/client/task.py: one benchmark episode  *)
(* between an agent and a remote task controller.  The episode starts a    *)
(* session, negotiates the legacy or the function-calling (FC) dialect     *)
(* from the start response, and then loops: agent inference, action        *)
(* normalisation, interact request, folding of the reply into the          *)
(* transcript and the tool registry, completion detection.                 *)
(*                                                                         *)
(* Python strings are TLA+ strings, handled character by character.  JSON  *)
(* values are records [t, s, items]; a JSON object keeps its pairs in      *)
(* insertion order, as a Python dict does.                                 *)
(***************************************************************************)
EXTENDS Integers, Sequences, FiniteSets, TLC

\* ------------------------------------------------------------------ text

Ch(s, i) == SubSeq(s, i, i)

Uppers == "ABCDEFGHIJKLMNOPQRSTUVWXYZ"

Lowers == "abcdefghijklmnopqrstuvwxyz"

\* The lower-case letter of each upper-case one, and back.
LowerOf == [c \in {Ch(Uppers, i) : i \in 1..Len(Uppers)} |->
              Ch(Lowers, CHOOSE i \in 1..Len(Uppers) : Ch(Uppers, i) = c)]

UpperOf == [c \in {Ch(Lowers, i) : i \in 1..Len(Lowers)} |->
              Ch(Uppers, CHOOSE i \in 1..Len(Lowers) : Ch(Lowers, i) = c)]

LowerCh(c) == IF c \in DOMAIN LowerOf THEN LowerOf[c] ELSE c

UpperCh(c) == IF c \in DOMAIN UpperOf THEN UpperOf[c] ELSE c

\* str.lower()
RECURSIVE Lower(_)
Lower(s) == IF s = "" THEN "" ELSE LowerCh(Ch(s, 1)) \o Lower(SubSeq(s, 2, Len(s)))

\* str.upper()
RECURSIVE Upper(_)
Upper(s) == IF s = "" THEN "" ELSE UpperCh(Ch(s, 1)) \o Upper(SubSeq(s, 2, Len(s)))

\* p in s
Contains(s, p) == \E i \in 1..(Len(s) - Len(p) + 1) : SubSeq(s, i, i + Len(p) - 1) = p

\* s.startswith(p)
StartsWith(s, p) == Len(s) >= Len(p) /\ SubSeq(s, 1, Len(p)) = p

\* str.lstrip()
RECURSIVE LStrip(_)
LStrip(s) == IF s # "" /\ Ch(s, 1) = " " THEN LStrip(SubSeq(s, 2, Len(s))) ELSE s

\* str.rstrip()
RECURSIVE RStrip(_)
RStrip(s) == IF s # "" /\ Ch(s, Len(s)) = " " THEN RStrip(SubSeq(s, 1, Len(s) - 1)) ELSE s

\* str.strip()
Strip(s) == RStrip(LStrip(s))

\* s.split(sep) for a one-character separator
RECURSIVE SplitAcc(_, _, _)
SplitAcc(s, sep, cur) ==
    IF s = "" THEN <<cur>>
    ELSE IF Ch(s, 1) = sep
         THEN <<cur>> \o SplitAcc(SubSeq(s, 2, Len(s)), sep, "")
         ELSE SplitAcc(SubSeq(s, 2, Len(s)), sep, cur \o Ch(s, 1))

Split(s, sep) == SplitAcc(s, sep, "")

\* Code-point order of the characters object keys are made of.
KeyAlphabet == "_abcdefghijklmnopqrstuvwxyz"

RankOf == [c \in {Ch(KeyAlphabet, i) : i \in 1..Len(KeyAlphabet)} |->
             CHOOSE i \in 1..Len(KeyAlphabet) : Ch(KeyAlphabet, i) = c]

CharRank(c) == IF c \in DOMAIN RankOf THEN RankOf[c] ELSE 0

\* a < b on Python strings (lexicographic by code point)
RECURSIVE StrLess(_, _)
StrLess(a, b) ==
    IF b = "" THEN FALSE
    ELSE IF a = "" THEN TRUE
    ELSE IF Ch(a, 1) = Ch(b, 1) THEN StrLess(SubSeq(a, 2, Len(a)), SubSeq(b, 2, Len(b)))
    ELSE CharRank(Ch(a, 1)) < CharRank(Ch(b, 1))

Digits == "0123456789"

IsDigit(c) == \E i \in 1..Len(Digits) : Ch(Digits, i) = c

\* ------------------------------------------------------------ JSON values

JNull == [t |-> "null", s |-> "", items |-> <<>>]

JStr(s) == [t |-> "str", s |-> s, items |-> <<>>]

JTrue == [t |-> "bool", s |-> "true", items |-> <<>>]

JFalse == [t |-> "bool", s |-> "false", items |-> <<>>]

JNum(s) == [t |-> "num", s |-> s, items |-> <<>>]

JList(xs) == [t |-> "list", s |-> "", items |-> xs]

\* A dict: its pairs [k, v] in insertion order, keys distinct.
JObj(ps) == [t |-> "obj", s |-> "", items |-> ps]

KV(k, v) == [k |-> k, v |-> v]

IsDict(x) == x.t = "obj"

IsStr(x) == x.t = "str"

IsList(x) == x.t = "list"

\* k in d
Has(d, k) == \E i \in 1..Len(d.items) : d.items[i].k = k

\* d.get(k): None when the key is absent
Get(d, k) ==
    IF Has(d, k)
    THEN d.items[CHOOSE i \in 1..Len(d.items) : d.items[i].k = k].v
    ELSE JNull

\* d[k] = v
Put(d, k, v) ==
    IF Has(d, k)
    THEN JObj([i \in 1..Len(d.items) |->
                 IF d.items[i].k = k THEN KV(k, v) ELSE d.items[i]])
    ELSE JObj(Append(d.items, KV(k, v)))

\* del d[k]
Del(d, k) == JObj(SelectSeq(d.items, LAMBDA p : p.k # k))

\* Python truthiness of a JSON value
Truthy(x) ==
    CASE x.t = "null" -> FALSE
      [] x.t = "bool" -> x.s = "true"
      [] x.t = "str" -> x.s # ""
      [] x.t = "num" -> x.s # "0"
      [] OTHER -> x.items # <<>>

\* Insertion of a pair into a key-sorted pair list.
RECURSIVE InsertSorted(_, _)
InsertSorted(ps, p) ==
    IF ps = <<>> THEN <<p>>
    ELSE IF StrLess(p.k, Head(ps).k) THEN <<p>> \o ps
    ELSE <<Head(ps)>> \o InsertSorted(Tail(ps), p)

RECURSIVE SortPairs(_)
SortPairs(ps) == IF ps = <<>> THEN <<>> ELSE InsertSorted(SortPairs(Tail(ps)), Head(ps))

\* The escapes json.dumps writes inside a string: \" and \\.
RECURSIVE Escaped(_)
Escaped(s) ==
    IF ~(Contains(s, "\"") \/ Contains(s, "\\")) THEN s
    ELSE (IF Ch(s, 1) = "\"" \/ Ch(s, 1) = "\\" THEN "\\" ELSE "") \o Ch(s, 1)
         \o Escaped(SubSeq(s, 2, Len(s)))

\* json.dumps(x, sort_keys=sorted): the text of a JSON value.
RECURSIVE Dumps(_, _)
RECURSIVE DumpsList(_, _)
RECURSIVE DumpsPairs(_, _)
Dumps(x, sorted) ==
    CASE x.t = "null" -> "null"
      [] x.t = "str" -> "\"" \o Escaped(x.s) \o "\""
      [] x.t = "list" -> "[" \o DumpsList(x.items, sorted) \o "]"
      [] x.t = "obj" ->
            "{" \o DumpsPairs(IF sorted THEN SortPairs(x.items) ELSE x.items, sorted) \o "}"
      [] OTHER -> x.s

DumpsList(xs, sorted) ==
    IF xs = <<>> THEN ""
    ELSE Dumps(Head(xs), sorted)
         \o (IF Len(xs) > 1 THEN ", " ELSE "")
         \o DumpsList(Tail(xs), sorted)

DumpsPairs(ps, sorted) ==
    IF ps = <<>> THEN ""
    ELSE "\"" \o Head(ps).k \o "\": " \o Dumps(Head(ps).v, sorted)
         \o (IF Len(ps) > 1 THEN ", " ELSE "")
         \o DumpsPairs(Tail(ps), sorted)

\* The number a literal denotes, as far as equality goes: 5.0 is 5.
NumValue(s) ==
    IF Len(s) > 2 /\ SubSeq(s, Len(s) - 1, Len(s)) = ".0" THEN SubSeq(s, 1, Len(s) - 2) ELSE s

\* a == b on parsed JSON values: dicts are equal whatever their insertion order,
\* numbers are equal by value whatever their type (5 == 5.0).
RECURSIVE ValueEq(_, _)
ValueEq(a, b) ==
    /\ a.t = b.t
    /\ IF a.t = "num" THEN NumValue(a.s) = NumValue(b.s) ELSE a.s = b.s
    /\ Len(a.items) = Len(b.items)
    /\ IF a.t = "obj"
       THEN \A i \in 1..Len(a.items) :
               /\ Has(b, a.items[i].k)
               /\ ValueEq(a.items[i].v, Get(b, a.items[i].k))
       ELSE \A i \in 1..Len(a.items) : ValueEq(a.items[i], b.items[i])

\* a and b are the same JSON document: equal up to the order of object keys,
\* every scalar written the same way.
RECURSIVE SameJson(_, _)
SameJson(a, b) ==
    /\ a.t = b.t
    /\ a.s = b.s
    /\ Len(a.items) = Len(b.items)
    /\ IF a.t = "obj"
       THEN \A i \in 1..Len(a.items) :
               /\ Has(b, a.items[i].k)
               /\ SameJson(a.items[i].v, Get(b, a.items[i].k))
       ELSE \A i \in 1..Len(a.items) : SameJson(a.items[i], b.items[i])

\* --------------------------------------------------- program constants

\* max_turns
max_turns == 200

\* TaskError
START_FAILED == "START_FAILED"

INTERACT_FAILED == "INTERACT_FAILED"

AGENT_FAILED == "AGENT_FAILED"

NETWORK_ERROR == "NETWORK_ERROR"

NOT_AVAILABLE == "NOT_AVAILABLE"

\* The values SampleStatus(...) accepts; any other value raises ValueError.
SampleStatusValues == {"running", "completed", "unknown"}

\* ---------------------------------------------------------- return values

\* TaskOutput: present = FALSE is output=None.
NoOutput == [present |-> FALSE, status |-> "", result |-> JNull]

TaskOutput(status, result) == [present |-> TRUE, status |-> status, result |-> result]

\* TaskClientOutput; kind "none" while run_sample is running, "raised" when an
\* exception leaves run_sample instead of a return value.
NoReturn == [kind |-> "none", error |-> "", info |-> "", output |-> NoOutput]

ErrorReturn(error, info, output) ==
    [kind |-> "error", error |-> error, info |-> info, output |-> output]

OutputReturn(output) == [kind |-> "output", error |-> "", info |-> "", output |-> output]

Raised(what) == [kind |-> "raised", error |-> "", info |-> what, output |-> NoOutput]

\* A controller-supplied output dict taken as TaskOutput.
OutputOf(o) ==
    IF IsDict(o)
    THEN TaskOutput(IF IsStr(Get(o, "status")) THEN Get(o, "status").s ELSE "",
                    Get(o, "result"))
    ELSE NoOutput

\* latest_result.get("output") if isinstance(latest_result, dict) else None
LatestOutput(latest) == IF IsDict(latest) THEN OutputOf(Get(latest, "output")) ELSE NoOutput

\* ------------------------------------------------------ session id header

IsIntText(s) ==
    LET b == Strip(s)
        d == IF b # "" /\ (Ch(b, 1) = "-" \/ Ch(b, 1) = "+") THEN SubSeq(b, 2, Len(b)) ELSE b
    IN d # "" /\ \A i \in 1..Len(d) : IsDigit(Ch(d, i))

DigitVal(c) == (CHOOSE i \in 1..Len(Digits) : Ch(Digits, i) = c) - 1

RECURSIVE NatOf(_)
NatOf(d) == IF d = "" THEN 0 ELSE 10 * NatOf(SubSeq(d, 1, Len(d) - 1)) + DigitVal(Ch(d, Len(d)))

\* int(s) of a text IsIntText accepts
IntOf(s) ==
    LET b == Strip(s)
    IN IF Ch(b, 1) = "-" THEN 0 - NatOf(SubSeq(b, 2, Len(b)))
       ELSE IF Ch(b, 1) = "+" THEN NatOf(SubSeq(b, 2, Len(b)))
       ELSE NatOf(b)

\* start_resp.headers.get("Session_id") or start_resp.headers.get("Session-Id")
SidHeader(headers) ==
    IF Truthy(Get(headers, "Session_id")) THEN Get(headers, "Session_id")
    ELSE Get(headers, "Session-Id")

\* _is_session_not_found without the lower-casing of the body
IsSessionNotFoundExact(text) == Contains(text, "session not found")

\* _is_session_not_found
IsSessionNotFound(text) == Contains(Lower(text), "session not found")

\* ------------------------------------------------------------- transcript

\* _add_messages inserting at the front instead of appending
RECURSIVE AddMessagesNewestFirst(_, _, _)
AddMessagesNewestFirst(conv, seen, msgs) ==
    IF msgs = <<>> THEN [conv |-> conv, seen |-> seen]
    ELSE IF Dumps(Head(msgs), TRUE) \in seen
         THEN AddMessagesNewestFirst(conv, seen, Tail(msgs))
         ELSE AddMessagesNewestFirst(<<Head(msgs)>> \o conv,
                                     seen \cup {Dumps(Head(msgs), TRUE)}, Tail(msgs))

\* _add_messages with the key written without sort_keys
RECURSIVE AddMessagesUnsortedKey(_, _, _)
AddMessagesUnsortedKey(conv, seen, msgs) ==
    IF msgs = <<>> THEN [conv |-> conv, seen |-> seen]
    ELSE IF Dumps(Head(msgs), FALSE) \in seen
         THEN AddMessagesUnsortedKey(conv, seen, Tail(msgs))
         ELSE AddMessagesUnsortedKey(Append(conv, Head(msgs)),
                                     seen \cup {Dumps(Head(msgs), FALSE)}, Tail(msgs))

\* _add_messages: [conv, seen] after folding msgs (a sequence) into the transcript.
RECURSIVE AddMessages(_, _, _)
AddMessages(conv, seen, msgs) ==
    IF msgs = <<>> THEN [conv |-> conv, seen |-> seen]
    ELSE LET m == Head(msgs)
             key == Dumps(m, TRUE)
         IN IF key \in seen
            THEN AddMessages(conv, seen, Tail(msgs))
            ELSE AddMessages(Append(conv, m), seen \cup {key}, Tail(msgs))

\* result.get("messages", []) when result is a dict; nothing otherwise
MessagesOf(res) ==
    IF IsDict(res) /\ IsList(Get(res, "messages")) THEN Get(res, "messages").items ELSE <<>>

\* ---------------------------------------------------------- tool registry

\* (t or {}).get("function") or {}
ToolFunction(tool) ==
    IF Truthy(tool) /\ Truthy(Get(tool, "function")) THEN Get(tool, "function") ELSE JObj(<<>>)

ToolNames(tools) ==
    {Get(ToolFunction(tools[i]), "name").s :
        i \in {j \in 1..Len(tools) : Truthy(Get(ToolFunction(tools[j]), "name"))}}

\* _update_tools that adds the advertised tools to the ones held
UpdateToolsMerging(fc, names, res_dict) ==
    IF ~IsDict(res_dict) THEN [fc_tools |-> fc, tool_name_set |-> names]
    ELSE IF Get(res_dict, "tools") = JNull THEN [fc_tools |-> fc, tool_name_set |-> names]
    ELSE IF ~IsList(Get(res_dict, "tools")) THEN [fc_tools |-> fc, tool_name_set |-> names]
    ELSE [fc_tools |-> fc \o Get(res_dict, "tools").items,
          tool_name_set |-> names \cup ToolNames(Get(res_dict, "tools").items)]

\* _update_tools: [fc_tools, tool_name_set] after a response.
UpdateTools(fc, names, res_dict) ==
    IF ~IsDict(res_dict) THEN [fc_tools |-> fc, tool_name_set |-> names]
    ELSE IF Get(res_dict, "tools") = JNull THEN [fc_tools |-> fc, tool_name_set |-> names]
    ELSE IF ~IsList(Get(res_dict, "tools")) THEN [fc_tools |-> fc, tool_name_set |-> names]
    ELSE [fc_tools |-> Get(res_dict, "tools").items,
          tool_name_set |-> ToolNames(Get(res_dict, "tools").items)]

\* ---------------------------------------------------- completion detection

\* _maybe_finish with finish tested before status
MaybeFinishFinishFirst(res_dict, conv) ==
    IF ~IsDict(res_dict) THEN NoReturn
    ELSE LET status == Get(res_dict, "status")
             final_result == Put(res_dict, "messages", JList(conv))
         IN IF Get(res_dict, "finish") = JTrue
            THEN OutputReturn(TaskOutput("completed", final_result))
            ELSE IF Truthy(status) /\ ~(IsStr(status) /\ status.s = "running")
            THEN OutputReturn(TaskOutput(
                     IF IsStr(status) /\ status.s \in SampleStatusValues
                     THEN status.s ELSE "unknown",
                     final_result))
            ELSE IF Has(res_dict, "output")
            THEN OutputReturn(OutputOf(Get(res_dict, "output")))
            ELSE NoReturn

\* _maybe_finish: the value to return, or NoReturn for None.
MaybeFinish(res_dict, conv) ==
    IF ~IsDict(res_dict) THEN NoReturn
    ELSE LET status == Get(res_dict, "status")
             final_result == Put(res_dict, "messages", JList(conv))
         IN IF Truthy(status) /\ ~(IsStr(status) /\ status.s = "running")
            THEN OutputReturn(TaskOutput(
                     IF IsStr(status) /\ status.s \in SampleStatusValues
                     THEN status.s ELSE "unknown",
                     final_result))
            ELSE IF Get(res_dict, "finish") = JTrue
            THEN OutputReturn(TaskOutput("completed", final_result))
            ELSE IF Has(res_dict, "output")
            THEN OutputReturn(OutputOf(Get(res_dict, "output")))
            ELSE NoReturn

\* ------------------------------------------------------ action normalizer

\* An agent output is a sequence of chunks: running text, or the text of one
\* JSON value (v).  Text chunks hold no "{" from which a JSON object decodes.
TextChunk(s) == [json |-> FALSE, s |-> s, v |-> JNull]

JsonChunk(v) == [json |-> TRUE, s |-> Dumps(v, FALSE), v |-> v]

\* The agent's content as one string.
RECURSIVE RawText(_)
RawText(content) == IF content = <<>> THEN "" ELSE Head(content).s \o RawText(Tail(content))

\* The first dict a scan for "{" decodes inside a JSON value, or None.
RECURSIVE FirstDictIn(_)
RECURSIVE FirstDictAmong(_)
FirstDictIn(v) ==
    IF IsDict(v) THEN v
    ELSE IF IsList(v) THEN FirstDictAmong(v.items)
    ELSE JNull

FirstDictAmong(vs) ==
    IF vs = <<>> THEN JNull
    ELSE IF FirstDictIn(Head(vs)) # JNull THEN FirstDictIn(Head(vs))
    ELSE FirstDictAmong(Tail(vs))

RECURSIVE ScanChunks(_)
ScanChunks(content) ==
    IF content = <<>> THEN JNull
    ELSE IF Head(content).json /\ FirstDictIn(Head(content).v) # JNull
         THEN FirstDictIn(Head(content).v)
    ELSE ScanChunks(Tail(content))

\* _first_json_obj: the whole text as JSON if it parses, else the first
\* object found scanning for "{", else None.
FirstJsonObj(content) ==
    IF Len(content) = 1 /\ content[1].json THEN content[1].v ELSE ScanChunks(content)

\* str(a)
PyStr(a) ==
    CASE a.t = "str" -> a.s
      [] a.t = "null" -> "None"
      [] a.t = "bool" -> (IF a.s = "true" THEN "True" ELSE "False")
      [] a.t = "num" -> a.s
      [] OTHER -> Dumps(a, FALSE)

MutatingKeywords ==
    {"UPDATE", "INSERT", "DELETE", "CREATE", "DROP", "ALTER", "REPLACE", "TRUNCATE"}

\* [p.strip() for p in name.split("|") if p.strip()]
NameParts(name) ==
    LET raw == Split(name, "|")
        kept == SelectSeq(raw, LAMBDA p : Strip(p) # "")
    IN [i \in 1..Len(kept) |-> Strip(kept[i])]

\* The last candidate that is a known tool name, or the name unchanged
LastKnown(name, names) ==
    LET parts == NameParts(name)
        hits == {i \in 1..Len(parts) : parts[i] \in names}
    IN IF hits = {} THEN name
       ELSE parts[CHOOSE i \in hits : \A j \in hits : i >= j]

\* The first candidate that is a known tool name, or the name unchanged.
FirstKnown(name, names) ==
    LET parts == NameParts(name)
        hits == {i \in 1..Len(parts) : parts[i] \in names}
    IN IF hits = {} THEN name
       ELSE parts[CHOOSE i \in hits : \A j \in hits : i <= j]

\* The result None of _normalize_tool_payload.
NormNone ==
    [ok |-> FALSE, name |-> "", arguments |-> JObj(<<>>), thought |-> JStr(""),
     should_auto_commit |-> FALSE]

\* The alias filling that looks at sql before query
AliasArgumentsSqlFirst(obj_dict, name) ==
    LET a0 == JObj(<<>>)
        a1 == IF IsStr(name) /\ name.s = "execute_sql"
              THEN IF IsStr(Get(obj_dict, "sql")) THEN Put(a0, "query", Get(obj_dict, "sql"))
                   ELSE IF IsStr(Get(obj_dict, "query")) THEN Put(a0, "query", Get(obj_dict, "query"))
                   ELSE IF IsStr(Get(obj_dict, "answer"))
                        THEN Put(a0, "query", Get(obj_dict, "answer"))
                   ELSE a0
              ELSE a0
        a == Get(obj_dict, "answer")
    IN IF IsStr(name) /\ name.s = "commit_final_answer"
       THEN IF Has(obj_dict, "answers") THEN Put(a1, "answers", Get(obj_dict, "answers"))
            ELSE IF Has(obj_dict, "answer")
                 THEN Put(a1, "answers", IF IsList(a) THEN a ELSE JList(<<JStr(PyStr(a))>>))
            ELSE a1
       ELSE a1

\* The alias filling without the answer alias of query
AliasArgumentsNoAnswer(obj_dict, name) ==
    LET a0 == JObj(<<>>)
        a1 == IF IsStr(name) /\ name.s = "execute_sql"
              THEN IF IsStr(Get(obj_dict, "query")) THEN Put(a0, "query", Get(obj_dict, "query"))
                   ELSE IF IsStr(Get(obj_dict, "sql")) THEN Put(a0, "query", Get(obj_dict, "sql"))
                   ELSE a0
              ELSE a0
        a == Get(obj_dict, "answer")
    IN IF IsStr(name) /\ name.s = "commit_final_answer"
       THEN IF Has(obj_dict, "answers") THEN Put(a1, "answers", Get(obj_dict, "answers"))
            ELSE IF Has(obj_dict, "answer")
                 THEN Put(a1, "answers", IF IsList(a) THEN a ELSE JList(<<JStr(PyStr(a))>>))
            ELSE a1
       ELSE a1

\* arguments when the agent's object has none: filled from top-level aliases.
AliasArguments(obj_dict, name) ==
    LET a0 == JObj(<<>>)
        a1 == IF IsStr(name) /\ name.s = "execute_sql"
              THEN IF IsStr(Get(obj_dict, "query")) THEN Put(a0, "query", Get(obj_dict, "query"))
                   ELSE IF IsStr(Get(obj_dict, "sql")) THEN Put(a0, "query", Get(obj_dict, "sql"))
                   ELSE IF IsStr(Get(obj_dict, "answer"))
                        THEN Put(a0, "query", Get(obj_dict, "answer"))
                   ELSE a0
              ELSE a0
        a == Get(obj_dict, "answer")
    IN IF IsStr(name) /\ name.s = "commit_final_answer"
       THEN IF Has(obj_dict, "answers") THEN Put(a1, "answers", Get(obj_dict, "answers"))
            ELSE IF Has(obj_dict, "answer")
                 THEN Put(a1, "answers", IF IsList(a) THEN a ELSE JList(<<JStr(PyStr(a))>>))
            ELSE a1
       ELSE a1

\* should_auto_commit without the upper-casing of the query
IsMutatingCaseSensitive(name, arguments) ==
    /\ name = "execute_sql"
    /\ IsStr(Get(arguments, "query"))
    /\ \E kw \in MutatingKeywords : StartsWith(LStrip(Get(arguments, "query").s), kw)

\* should_auto_commit without the test of the tool name
IsMutatingAnyTool(name, arguments) ==
    LET q == IF Has(arguments, "query") THEN Get(arguments, "query") ELSE JStr("")
    IN /\ IsStr(q)
       /\ \E kw \in MutatingKeywords : StartsWith(Upper(LStrip(q.s)), kw)

\* should_auto_commit
IsMutating(name, arguments) ==
    LET q == IF Has(arguments, "query") THEN Get(arguments, "query") ELSE JStr("")
    IN /\ name = "execute_sql"
       /\ IsStr(q)
       /\ \E kw \in MutatingKeywords : StartsWith(Upper(LStrip(q.s)), kw)

\* name, with the field "tool" accepted for an absent "name"
PayloadName(obj_dict) ==
    IF Get(obj_dict, "name") = JNull /\ IsStr(Get(obj_dict, "tool"))
    THEN Get(obj_dict, "tool") ELSE Get(obj_dict, "name")

\* arguments, filled from the aliases when absent
PayloadArguments(obj_dict, name) ==
    IF Get(obj_dict, "arguments") = JNull
    THEN AliasArguments(obj_dict, name)
    ELSE Get(obj_dict, "arguments")

\* obj_dict.get("thought", "")
PayloadThought(obj_dict) ==
    IF Has(obj_dict, "thought") THEN Get(obj_dict, "thought") ELSE JStr("")

\* A name listing candidates with "|" becomes the first known one.
PickCandidate(name, names) ==
    IF Contains(name, "|") /\ names # {} THEN FirstKnown(name, names) ELSE name

\* if not isinstance(arguments, dict): arguments = {}
AsDict(arguments) == IF IsDict(arguments) THEN arguments ELSE JObj(<<>>)

\* arguments["query"] = arguments.pop("sql")
SqlToQuery(name, arguments) ==
    IF name = "execute_sql" /\ ~Has(arguments, "query") /\ Has(arguments, "sql")
    THEN Put(Del(arguments, "sql"), "query", Get(arguments, "sql"))
    ELSE arguments

\* The redirection that prefers commit_final_answer to execute_sql
RedirectCommitFirst(name, arguments, names) ==
    IF names # {} /\ name \notin names
    THEN IF "commit_final_answer" \in names THEN "commit_final_answer"
         ELSE IF "execute_sql" \in names /\ IsStr(Get(arguments, "query")) THEN "execute_sql"
         ELSE name
    ELSE name

\* A name the registry does not know is redirected to a tool it has.
Redirect(name, arguments, names) ==
    IF names # {} /\ name \notin names
    THEN IF "execute_sql" \in names /\ IsStr(Get(arguments, "query")) THEN "execute_sql"
         ELSE IF "commit_final_answer" \in names THEN "commit_final_answer"
         ELSE name
    ELSE name

\* arguments["answers"] = [""] for a commit_final_answer without answers
DefaultAnswers(name, arguments) ==
    IF name = "commit_final_answer" /\ ~Has(arguments, "answers")
    THEN Put(arguments, "answers", JList(<<JStr("")>>))
    ELSE arguments

\* The tuple _normalize_tool_payload returns.
Normalized(name, arguments, thought) ==
    [ok |-> TRUE, name |-> name, arguments |-> arguments, thought |-> thought,
     should_auto_commit |-> IsMutating(name, arguments)]

NormalizeRedirected(name, arguments, thought, names) ==
    Normalized(Redirect(name, arguments, names),
               DefaultAnswers(Redirect(name, arguments, names), arguments), thought)

NormalizeNamed(name, arguments, thought, names) ==
    NormalizeRedirected(name, SqlToQuery(name, AsDict(arguments)), thought, names)

\* _normalize_tool_payload
NormalizeToolPayload(obj_dict, names) ==
    IF ~IsDict(obj_dict) THEN NormNone
    ELSE IF ~IsStr(PayloadName(obj_dict)) \/ PayloadName(obj_dict).s = "" THEN NormNone
    ELSE NormalizeNamed(PickCandidate(PayloadName(obj_dict).s, names),
                        PayloadArguments(obj_dict, PayloadName(obj_dict)),
                        PayloadThought(obj_dict), names)

\* The one-element tool_calls list of an assistant message.
ToolCalls(name, arguments) ==
    JList(<<JObj(<<KV("id", JStr("call_1")),
                   KV("type", JStr("function")),
                   KV("function", JObj(<<KV("name", JStr(name)),
                                         KV("arguments", JStr(Dumps(arguments, FALSE)))>>))>>)>>)

\* (tc, ac, should_auto_commit) of a normalized payload; tc is None on failure.
ParsedCalls(norm) ==
    IF ~norm.ok THEN [tc |-> JNull, ac |-> "", should_auto_commit |-> FALSE]
    ELSE [tc |-> ToolCalls(norm.name, norm.arguments),
          ac |-> IF IsStr(norm.thought) THEN norm.thought.s ELSE "",
          should_auto_commit |-> norm.should_auto_commit]

\* _try_parse_to_tool_calls
TryParseToToolCalls(content, names) ==
    ParsedCalls(NormalizeToolPayload(FirstJsonObj(content), names))

\* The commit_final_answer call the loop synthesizes.
DefaultCommitCalls == ToolCalls("commit_final_answer", JObj(<<KV("answers", JList(<<JStr("")>>))>>))

\* msg = {"role": "assistant", "content": ..., "tool_calls": ...}
AssistantMsg(content, tool_calls) ==
    LET base == JObj(<<KV("role", JStr("assistant")), KV("content", JStr(content))>>)
    IN IF tool_calls = JNull THEN base ELSE Put(base, "tool_calls", tool_calls)

\* ------------------------------------------------------------ environment

\* How far TLC follows an episode whose controller and agent answer anything.
Horizon == 2

\* How far TLC follows the legacy loop, which has no turn budget of its own.
MaxLegacyTurns == 201

\* An HTTP response; outcome "failed" is a request that raised instead.
Answer(code, text) ==
    [outcome |-> "answered", status_code |-> code, text |-> text, parses |-> FALSE,
     json |-> JNull, headers |-> JObj(<<>>)]

Ok200(body) == [Answer(200, Dumps(body, FALSE)) EXCEPT !.parses = TRUE, !.json = body]

WithHeaders(resp, headers) == [resp EXCEPT !.headers = headers]

NetworkFailure == [Answer(0, "connection refused") EXCEPT !.outcome = "failed"]

NoResponse == [Answer(0, "") EXCEPT !.outcome = "none"]

SidOk == JObj(<<KV("Session_id", JStr("7"))>>)

SidSecond == JObj(<<KV("Session_id", JStr("")), KV("Session-Id", JStr(" 12 "))>>)

SidNotInt == JObj(<<KV("Session_id", JStr("abc")), KV("Session-Id", JStr("7"))>>)

\* Messages in the wire shape {role, content, tool_calls?, usage?}.
MUser == JObj(<<KV("role", JStr("user")), KV("content", JStr("task"))>>)

MTool ==
    JObj(<<KV("role", JStr("tool")), KV("content", JStr("1 row")),
           KV("usage", JObj(<<KV("total_tokens", JNum("5"))>>))>>)

\* MTool as another serializer writes it: the same value, other key order.
MToolReordered ==
    JObj(<<KV("usage", JObj(<<KV("total_tokens", JNum("5"))>>)),
           KV("content", JStr("1 row")), KV("role", JStr("tool"))>>)

\* MTool with its token count written as a float: equal in value, other text.
MToolFloat ==
    JObj(<<KV("role", JStr("tool")), KV("content", JStr("1 row")),
           KV("usage", JObj(<<KV("total_tokens", JNum("5.0"))>>))>>)

ToolNamed(name) ==
    JObj(<<KV("type", JStr("function")),
           KV("function", JObj(<<KV("name", JStr(name)), KV("parameters", JObj(<<>>))>>))>>)

BothTools == JList(<<ToolNamed("execute_sql"), ToolNamed("commit_final_answer")>>)

Running == KV("status", JStr("running"))

FcStartBoth == JObj(<<KV("messages", JList(<<MUser>>)), KV("tools", BothTools)>>)

FcStartNoTools == JObj(<<KV("messages", JList(<<MUser>>))>>)

FcStartCompleted ==
    JObj(<<KV("status", JStr("completed")), KV("messages", JList(<<MUser>>)),
           KV("tools", BothTools)>>)

LegacyOutput(status) ==
    JObj(<<KV("output", JObj(<<KV("status", JStr(status)), KV("history", JList(<<>>)),
                               KV("result", JObj(<<>>))>>))>>)

LegacyNoHistory == JObj(<<KV("output", JObj(<<Running>>))>>)

FcQuiet == JObj(<<Running>>)

FcToolMsg == JObj(<<Running, KV("messages", JList(<<MTool>>))>>)

FcRepeatedMsgs ==
    JObj(<<Running, KV("messages", JList(<<MToolReordered, MUser, MTool, MToolFloat>>))>>)

FcSqlOnly == JObj(<<Running, KV("tools", JList(<<ToolNamed("execute_sql")>>))>>)

FcCompleted == JObj(<<KV("status", JStr("completed")), KV("messages", JList(<<MTool>>))>>)

FcFinish == JObj(<<Running, KV("finish", JTrue), KV("messages", JList(<<MTool>>))>>)

FcEmbeddedOutput ==
    JObj(<<KV("messages", JList(<<MTool>>)),
           KV("output", JObj(<<KV("status", JStr("completed")), KV("result", JObj(<<>>))>>))>>)

FcOddStatus == JObj(<<KV("status", JStr("timeout"))>>)

FcBothTools == JObj(<<Running, KV("tools", BothTools)>>)

NotADict == JList(<<JNum("1")>>)

Unparseable == [Answer(200, "<html>") EXCEPT !.headers = SidOk]

\* What POST /start_sample may come back with.
StallingStarts ==
    {WithHeaders(Ok200(b), SidOk) : b \in {FcStartBoth, FcStartCompleted, LegacyOutput("running")}}

AnyStarts ==
    {NetworkFailure, Answer(406, "busy"), Answer(500, "boom"), Unparseable,
     Ok200(FcStartBoth), WithHeaders(Ok200(FcStartBoth), SidNotInt),
     WithHeaders(Ok200(FcStartBoth), SidSecond)}
    \cup {WithHeaders(Ok200(b), SidOk) :
            b \in {FcStartBoth, FcStartNoTools, FcStartCompleted, NotADict,
                   LegacyOutput("running"), LegacyOutput("completed"),
                   LegacyOutput("timeout"), LegacyNoHistory}}

\* The start of an episode whose registry gets commit_final_answer late.
DeferredStarts == {WithHeaders(Ok200(FcStartNoTools), SidOk)}

StartResponses(p) ==
    IF p = "stalling" THEN StallingStarts
    ELSE IF p = "deferred" THEN DeferredStarts ELSE AnyStarts

ErrorBodies == {"Error: Session Not Found", "session not found", "internal error"}

\* What POST /interact may come back with, per profile and dialect.
Failures == {NetworkFailure, Unparseable} \cup {Answer(500, b) : b \in ErrorBodies}

StallingLegacyReplies == {Ok200(LegacyOutput("running"))}

StallingFcReplies == {Ok200(FcQuiet)}

AnyLegacyReplies ==
    Failures \cup {Ok200(b) : b \in {LegacyOutput("running"), LegacyOutput("completed"),
                                     LegacyOutput("timeout"), NotADict}}

AnyFcReplies ==
    Failures \cup {Ok200(b) : b \in {FcQuiet, FcToolMsg, FcRepeatedMsgs, FcSqlOnly, NotADict,
                                     FcCompleted, FcFinish, FcEmbeddedOutput, FcOddStatus}}

\* The replies of a controller that is not the one under study.
PlainFcReplies == {Ok200(FcSqlOnly), Ok200(FcCompleted), Answer(500, "internal error")}

\* Replies that go on, one of them advertising both tools.
DeferredReplies == {Ok200(FcQuiet), Ok200(FcBothTools)}

InteractResponses(p, d) ==
    IF p = "stalling"
    THEN IF d = "legacy" THEN StallingLegacyReplies ELSE StallingFcReplies
    ELSE IF p = "deferred" THEN DeferredReplies
    ELSE IF d = "legacy" THEN AnyLegacyReplies
    ELSE IF p = "agent" THEN PlainFcReplies ELSE AnyFcReplies

\* What agent.inference may do: return content, or raise.
Says(content) == [raises |-> "none", content |-> content]

Raises(what) == [raises |-> what, content |-> <<>>]

SaysSelect ==
    Says(<<JsonChunk(JObj(<<KV("name", JStr("execute_sql")),
                            KV("arguments", JObj(<<KV("query", JStr("SELECT 1"))>>)),
                            KV("thought", JStr("look"))>>))>>)

SaysUpdate ==
    Says(<<JsonChunk(JObj(<<KV("tool", JStr("execute_sql")),
                            KV("query", JStr("  update t set x=1"))>>))>>)

SaysProse == Says(<<TextChunk("I cannot")>>)

SaysAnswer ==
    Says(<<TextChunk("Sure: "),
           JsonChunk(JObj(<<KV("name", JStr("commit_final_answer")),
                            KV("answer", JNum("42"))>>))>>)

SaysFinish == Says(<<JsonChunk(JObj(<<KV("name", JStr("finish_action"))>>))>>)

StallingAgent == {SaysSelect, SaysProse}

AnyAgent ==
    {SaysSelect, SaysUpdate, SaysProse, SaysAnswer, SaysFinish,
     Raises("context_limit"), Raises("error")}

\* The outputs of an agent that is not the one under study.
PlainAgent == {SaysSelect, SaysUpdate}

AgentOutcomes(p, d) ==
    IF p = "stalling" THEN StallingAgent
    ELSE IF p = "deferred" THEN PlainAgent
    ELSE IF p = "controller" /\ d = "fc" THEN PlainAgent ELSE AnyAgent

\* The environments explored: in "controller" the controller may answer anything
\* and the agent is plain, in "agent" the agent may do anything and the
\* controller is plain, in "stalling" neither ever ends the episode, in
\* "deferred" the registry starts empty and is advertised by a later reply.
Profiles == {"controller", "agent", "stalling", "deferred"}

\* ------------------------------------------------------------------ state

VARIABLES
    profile,                \* the environment explored, one of Profiles
    pc,                     \* "start", "legacy", "fc" or "done": where run_sample is
    dialect,                \* "none" until negotiated, then "legacy" or "fc"
    start_resp,             \* the response to POST /start_sample
    sid,                    \* the session id, NoSid before start succeeded
    latest_result,          \* result / latest_result: the last parsed response body
    conversation_messages,  \* the transcript
    seen_messages,          \* _seen_messages: the keys of the transcript's entries
    fc_tools,               \* the advertised tool list
    tool_name_set,          \* the names of the advertised tools
    auto_commit_next,       \* a mutating execute_sql was sent and no commit yet
    turn,                   \* iterations of the FC loop started
    interact_resp,          \* the response to the last POST /interact
    ret,                    \* what run_sample returned (or raised)
    n_interact,             \* POST /interact calls made
    n_cancel,               \* POST /cancel calls made
    cancel_resp,            \* what the last POST /cancel came back with
    inferences,             \* agent.inference calls made in the last turn
    said,                   \* what those calls did, in order
    last_req,               \* the body of the last POST /interact
    only_running,           \* every interact so far was answered 200 with no completion signal, and the agent never raised
    exchanged,              \* every message received or sent so far, first occurrences in order
    fn_in,                  \* the arguments of a helper called on its own, NoCall in an episode
    fn_out,                 \* what that call returned
    calls                   \* run_sample calls running side by side on one TaskClient, NoCalls otherwise

episode ==
    <<profile, pc, dialect, start_resp, sid, latest_result, conversation_messages,
      seen_messages, fc_tools, tool_name_set, auto_commit_next, turn, interact_resp, ret,
      n_interact, n_cancel, cancel_resp, inferences, said, last_req, only_running,
      exchanged>>

vars == <<episode, fn_in, fn_out, calls>>

NoCall == [fn |-> "none"]

\* No run_sample calls side by side.
NoCalls == <<>>

NoSid == -1

NoRequest == [kind |-> "none", body |-> JNull]

\* json={"session_id": sid, "messages": [msg]}
FcRequest(msg) == [kind |-> "messages", body |-> msg]

\* json=InteractRequest(session_id=sid, agent_response=response).dict()
LegacyRequest(response) == [kind |-> "agent_response", body |-> response]

\* The state as one record.
Now ==
    [profile |-> profile, pc |-> pc, dialect |-> dialect, start_resp |-> start_resp,
     sid |-> sid, latest_result |-> latest_result,
     conversation_messages |-> conversation_messages, seen_messages |-> seen_messages,
     fc_tools |-> fc_tools, tool_name_set |-> tool_name_set,
     auto_commit_next |-> auto_commit_next, turn |-> turn, interact_resp |-> interact_resp,
     ret |-> ret, n_interact |-> n_interact, n_cancel |-> n_cancel,
     cancel_resp |-> cancel_resp,
     inferences |-> inferences, said |-> said, last_req |-> last_req, only_running |-> only_running,
     exchanged |-> exchanged]

\* The assignment of the state n to the variables of the episode.
Assign(n) ==
    /\ profile' = n.profile
    /\ pc' = n.pc
    /\ dialect' = n.dialect
    /\ start_resp' = n.start_resp
    /\ sid' = n.sid
    /\ latest_result' = n.latest_result
    /\ conversation_messages' = n.conversation_messages
    /\ seen_messages' = n.seen_messages
    /\ fc_tools' = n.fc_tools
    /\ tool_name_set' = n.tool_name_set
    /\ auto_commit_next' = n.auto_commit_next
    /\ turn' = n.turn
    /\ interact_resp' = n.interact_resp
    /\ ret' = n.ret
    /\ n_interact' = n.n_interact
    /\ n_cancel' = n.n_cancel
    /\ cancel_resp' = n.cancel_resp
    /\ inferences' = n.inferences
    /\ said' = n.said
    /\ last_req' = n.last_req
    /\ only_running' = n.only_running
    /\ exchanged' = n.exchanged
    /\ UNCHANGED <<fn_in, fn_out, calls>>

\* What POST /cancel may come back with.
CancelResponses ==
    {Answer(200, "cancelled"), Answer(500, "cancel refused"),
     [Answer(0, "cancel timed out") EXCEPT !.outcome = "failed"]}

\* _cancel without its try block: a request that raises ends run_sample
CancelUnguarded(n, resp) ==
    [n EXCEPT !.cancel_resp = resp,
              !.ret = IF resp.outcome = "failed" THEN Raised("ConnectionError") ELSE @]

\* _cancel: the request is made; an exception is passed over and the response
\* is never looked at.
Cancel(n, resp) == [n EXCEPT !.cancel_resp = resp]

\* The step to the state n of a handler, computed once; when the handler
\* called _cancel the cancel request got one of its answers.
Becomes(n) ==
    \E next \in {n} :
        IF next.n_cancel > n_cancel
        THEN \E resp \in CancelResponses : Assign(Cancel(next, resp))
        ELSE Assign(next)

\* The messages of msgs that no earlier one is the same JSON document as,
\* appended to log in order.
RECURSIVE LogAppend(_, _)
LogAppend(log, msgs) ==
    IF msgs = <<>> THEN log
    ELSE IF \E i \in 1..Len(log) : SameJson(log[i], Head(msgs))
         THEN LogAppend(log, Tail(msgs))
         ELSE LogAppend(Append(log, Head(msgs)), Tail(msgs))

\* run_sample has not begun.
Idle ==
    /\ pc = "start"
    /\ dialect = "none"
    /\ start_resp = NoResponse
    /\ sid = NoSid
    /\ latest_result = JNull
    /\ conversation_messages = <<>>
    /\ seen_messages = {}
    /\ fc_tools = <<>>
    /\ tool_name_set = {}
    /\ auto_commit_next = FALSE
    /\ turn = 0
    /\ interact_resp = NoResponse
    /\ ret = NoReturn
    /\ n_interact = 0
    /\ n_cancel = 0
    /\ cancel_resp = NoResponse
    /\ inferences = 0
    /\ said = <<>>
    /\ last_req = NoRequest
    /\ only_running = TRUE
    /\ exchanged = <<>>

Init ==
    /\ profile \in Profiles
    /\ Idle
    /\ fn_in = NoCall
    /\ fn_out = NoCall
    /\ calls = NoCalls

\* ------------------------------------------------------------------ start

\* The start checks without the test for status 406
StartFailureNo406(resp) ==
    IF resp.outcome = "failed" THEN ErrorReturn(NETWORK_ERROR, resp.text, NoOutput)
    ELSE IF resp.status_code # 200 THEN ErrorReturn(START_FAILED, resp.text, NoOutput)
    ELSE IF ~resp.parses
         THEN ErrorReturn(START_FAILED, "Invalid JSON from start_sample", NoOutput)
    ELSE IF ~Truthy(SidHeader(resp.headers))
         THEN ErrorReturn(START_FAILED, "Missing Session_id header", NoOutput)
    ELSE IF ~(IsStr(SidHeader(resp.headers)) /\ IsIntText(SidHeader(resp.headers).s))
         THEN ErrorReturn(START_FAILED, "Invalid Session_id header value", NoOutput)
    ELSE NoReturn

\* The start checks with every non-200 status taken as "not available"
StartFailureAllUnavailable(resp) ==
    IF resp.outcome = "failed" THEN ErrorReturn(NETWORK_ERROR, resp.text, NoOutput)
    ELSE IF resp.status_code # 200 THEN ErrorReturn(NOT_AVAILABLE, resp.text, NoOutput)
    ELSE IF ~resp.parses
         THEN ErrorReturn(START_FAILED, "Invalid JSON from start_sample", NoOutput)
    ELSE IF ~Truthy(SidHeader(resp.headers))
         THEN ErrorReturn(START_FAILED, "Missing Session_id header", NoOutput)
    ELSE IF ~(IsStr(SidHeader(resp.headers)) /\ IsIntText(SidHeader(resp.headers).s))
         THEN ErrorReturn(START_FAILED, "Invalid Session_id header value", NoOutput)
    ELSE NoReturn

\* The error run_sample returns on a start response, NoReturn when the start succeeded.
StartFailure(resp) ==
    IF resp.outcome = "failed" THEN ErrorReturn(NETWORK_ERROR, resp.text, NoOutput)
    ELSE IF resp.status_code = 406 THEN ErrorReturn(NOT_AVAILABLE, resp.text, NoOutput)
    ELSE IF resp.status_code # 200 THEN ErrorReturn(START_FAILED, resp.text, NoOutput)
    ELSE IF ~resp.parses
         THEN ErrorReturn(START_FAILED, "Invalid JSON from start_sample", NoOutput)
    ELSE IF ~Truthy(SidHeader(resp.headers))
         THEN ErrorReturn(START_FAILED, "Missing Session_id header", NoOutput)
    ELSE IF ~(IsStr(SidHeader(resp.headers)) /\ IsIntText(SidHeader(resp.headers).s))
         THEN ErrorReturn(START_FAILED, "Invalid Session_id header value", NoOutput)
    ELSE NoReturn

\* The dialect test that takes every object for a legacy start
IsLegacyAnyDict(result) == IsDict(result)

\* isinstance(result, dict) and "output" in result
IsLegacy(result) == IsDict(result) /\ Has(result, "output")

\* run_sample up to the choice of the loop: the start request, the session id,
\* the first messages and tools, the dialect.
Started(s, resp) ==
    IF StartFailure(resp).kind # "none"
    THEN [s EXCEPT !.pc = "done", !.start_resp = resp, !.ret = StartFailure(resp)]
    ELSE LET result == resp.json
             added == AddMessages(s.conversation_messages, s.seen_messages,
                                  MessagesOf(result))
             tools == UpdateTools(<<>>, {}, result)
         IN [s EXCEPT
                !.pc = IF IsLegacy(result) THEN "legacy" ELSE "fc",
                !.dialect = IF IsLegacy(result) THEN "legacy" ELSE "fc",
                !.start_resp = resp,
                !.sid = IntOf(SidHeader(resp.headers).s),
                !.latest_result = result,
                !.conversation_messages = added.conv,
                !.seen_messages = added.seen,
                !.fc_tools = tools.fc_tools,
                !.tool_name_set = tools.tool_name_set,
                !.exchanged = LogAppend(<<>>, MessagesOf(result))]

\* The start request of run_sample and what follows it up to the loops.
StartSample ==
    /\ pc = "start"
    /\ \E resp \in StartResponses(profile) : Becomes(Started(Now, resp))

\* ------------------------------------------------------------ legacy loop

\* SampleStatus(result["output"]["status"]), "raises" when the lookup or the
\* enum constructor raises.
LegacyStatus(result) ==
    LET output == IF IsDict(result) THEN Get(result, "output") ELSE JNull
        status == IF IsDict(output) THEN Get(output, "status") ELSE JNull
    IN IF IsDict(result) /\ Has(result, "output") /\ IsDict(output) /\ Has(output, "status")
          /\ IsStr(status) /\ status.s \in SampleStatusValues
       THEN status.s ELSE "raises"

\* The number of cancel requests after a non-200 interact response.
CancelsOnStatus(text) == IF IsSessionNotFound(text) THEN 0 ELSE 1

\* The cancel requests a legacy interact that could not be sent is followed by.
LegacyNetworkCancels == 0

\* One iteration of the legacy loop from state s: agent outcome a, response resp.
LegacyExchange(s, a, resp) ==
    LET output == Get(s.latest_result, "output")
        asked == Has(output, "history")
        response == IF a.raises = "context_limit"
                    THEN JObj(<<KV("status", JStr("agent context limit"))>>)
                    ELSE JObj(<<KV("content", JStr(RawText(a.content)))>>)
        sent == [s EXCEPT !.inferences = 1, !.said = <<a>>, !.n_interact = @ + 1, !.interact_resp = resp,
                          !.last_req = LegacyRequest(response),
                          !.only_running = @ /\ a.raises = "none"]
    IN IF ~asked \/ a.raises = "error"
       THEN [s EXCEPT !.pc = "done", !.inferences = IF asked THEN 1 ELSE 0,
                      !.said = IF asked THEN <<a>> ELSE <<>>,
                      !.n_cancel = @ + 1, !.only_running = FALSE,
                      !.ret = ErrorReturn(AGENT_FAILED, "agent error",
                                          LatestOutput(s.latest_result))]
       ELSE IF resp.outcome = "failed"
       THEN [sent EXCEPT !.pc = "done", !.only_running = FALSE,
                         !.n_cancel = @ + LegacyNetworkCancels,
                         !.ret = ErrorReturn(NETWORK_ERROR, resp.text,
                                             LatestOutput(s.latest_result))]
       ELSE IF resp.status_code # 200
       THEN [sent EXCEPT !.pc = "done", !.only_running = FALSE,
                         !.n_cancel = @ + CancelsOnStatus(resp.text),
                         !.ret = ErrorReturn(INTERACT_FAILED, resp.text,
                                             LatestOutput(s.latest_result))]
       ELSE IF ~resp.parses
       THEN [sent EXCEPT !.pc = "done", !.only_running = FALSE,
                         !.ret = Raised("JSONDecodeError")]
       ELSE [sent EXCEPT !.latest_result = resp.json,
                         !.only_running = @ /\ LegacyStatus(resp.json) = "running"]

\* How many legacy turns TLC follows.
LegacyTurnsFollowed == IF profile = "stalling" THEN MaxLegacyTurns ELSE Horizon

\* The loop test holds: one agent call and one interact request.
LegacyTurn ==
    /\ pc = "legacy"
    /\ LegacyStatus(latest_result) = "running"
    /\ n_interact < LegacyTurnsFollowed
    /\ \E a \in AgentOutcomes(profile, "legacy"), resp \in InteractResponses(profile, "legacy") :
         Becomes(LegacyExchange(Now, a, resp))

\* The loop test fails or raises: the controller's output is returned as it is.
LegacyExited(s) ==
    [s EXCEPT
        !.pc = "done",
        !.ret = IF LegacyStatus(s.latest_result) = "raises"
                THEN Raised("SampleStatus")
                ELSE OutputReturn(OutputOf(Get(s.latest_result, "output")))]

\* The legacy loop is left through its test.
LegacyExit ==
    /\ pc = "legacy"
    /\ LegacyStatus(latest_result) # "running"
    /\ Becomes(LegacyExited(Now))

\* ---------------------------------------------------------------- FC loop

\* The loop test off by one: range(max_turns + 1)
BudgetLeftInclusive(t) == t <= max_turns

\* The for loop has an iteration left.
BudgetLeft(t) == t < max_turns

\* The cancel requests sent when the turn budget is used up.
ExhaustedCancels == 1

\* The reply of an FC turn folded in and tested for completion.
FcFolded(sent, result, folded, tools, out) ==
    [sent EXCEPT !.latest_result = result,
                 !.conversation_messages = folded.conv,
                 !.seen_messages = folded.seen,
                 !.fc_tools = tools.fc_tools,
                 !.tool_name_set = tools.tool_name_set,
                 !.exchanged = LogAppend(@, MessagesOf(result)),
                 !.ret = out,
                 !.pc = IF out.kind = "none" THEN "fc" ELSE "done",
                 !.only_running = @ /\ out.kind = "none"]

\* The completion test made on the transcript as it was before the reply.
FcFoldBeforeReply(sent, result, folded) ==
    FcFolded(sent, result, folded, UpdateTools(sent.fc_tools, sent.tool_name_set, result),
             MaybeFinish(result, sent.conversation_messages))

\* The reply folded into the transcript and the registry, then tested.
FcFold(sent, result, folded) ==
    FcFolded(sent, result, folded, UpdateTools(sent.fc_tools, sent.tool_name_set, result),
             MaybeFinish(result, folded.conv))

\* The return value on a non-200 interact response of an FC turn.
FcStatusReturn(out, text) ==
    IF out.kind # "none" THEN out ELSE ErrorReturn(INTERACT_FAILED, text, NoOutput)

\* An FC turn after its request: sent is the state with the request made.
FcReceive(sent, resp) ==
    IF resp.outcome = "failed"
    THEN [sent EXCEPT !.pc = "done", !.only_running = FALSE, !.n_cancel = @ + 1,
                      !.ret = ErrorReturn(NETWORK_ERROR, resp.text, NoOutput)]
    ELSE IF resp.status_code # 200
    THEN [sent EXCEPT !.pc = "done", !.only_running = FALSE,
                      !.n_cancel = @ + CancelsOnStatus(resp.text),
                      !.ret = FcStatusReturn(
                                  MaybeFinish(sent.latest_result, sent.conversation_messages),
                                  resp.text)]
    ELSE IF ~resp.parses
    THEN [sent EXCEPT !.pc = "done", !.only_running = FALSE,
                      !.ret = Raised("JSONDecodeError")]
    ELSE FcFold(sent, resp.json,
                AddMessages(sent.conversation_messages, sent.seen_messages,
                            MessagesOf(resp.json)))

\* The request made with the assistant message appended whether seen or not
FcSentAlwaysAppended(s, added, msg, resp) ==
    [s EXCEPT !.conversation_messages = Append(s.conversation_messages, msg),
              !.seen_messages = added.seen,
              !.turn = @ + 1, !.n_interact = @ + 1, !.interact_resp = resp,
              !.last_req = FcRequest(msg),
              !.exchanged = LogAppend(@, <<msg>>)]

\* The state with the assistant message in the transcript and the request made.
FcSent(s, added, msg, resp) ==
    [s EXCEPT !.conversation_messages = added.conv,
              !.seen_messages = added.seen,
              !.turn = @ + 1, !.n_interact = @ + 1, !.interact_resp = resp,
              !.last_req = FcRequest(msg),
              !.exchanged = LogAppend(@, <<msg>>)]

\* An FC turn from its assistant message on: the message joins the transcript,
\* is sent, and the reply is folded in and tested for completion.
FcExchange(s, msg, resp) ==
    FcReceive(FcSent(s, AddMessages(s.conversation_messages, s.seen_messages, <<msg>>),
                     msg, resp),
              resp)

\* The first agent output did not normalize: the agent is asked once more.
NeedsRetry(a, names) == TryParseToToolCalls(a.content, names).tc = JNull

\* The corrective inference: nothing when it raises.
RetryParse(a2, names) ==
    IF a2.raises = "none" THEN TryParseToToolCalls(a2.content, names)
    ELSE [tc |-> JNull, ac |-> "", should_auto_commit |-> FALSE]

\* The turn's message without the commit_final_answer fallback
DecidedWithoutFallback(parsed, raw, retried, raised, names, flag) ==
    [msg |-> IF parsed.tc = JNull THEN AssistantMsg(raw, JNull)
             ELSE AssistantMsg(parsed.ac, parsed.tc),
     auto_commit_next |-> flag \/ parsed.should_auto_commit,
     inferences |-> IF retried THEN 2 ELSE 1,
     raised |-> raised]

\* The turn's assistant message and flag from the parse that counts.
Decided(parsed, raw, retried, raised, names, flag) ==
    [msg |-> IF parsed.tc = JNull /\ "commit_final_answer" \in names
             THEN AssistantMsg("", DefaultCommitCalls)
             ELSE IF parsed.tc = JNull THEN AssistantMsg(raw, JNull)
             ELSE AssistantMsg(parsed.ac, parsed.tc),
     auto_commit_next |-> flag \/ parsed.should_auto_commit,
     inferences |-> IF retried THEN 2 ELSE 1,
     raised |-> raised]

DecideFrom(p1, a1, a2, names, flag) ==
    IF p1.tc # JNull
    THEN Decided(p1, RawText(a1.content), FALSE, FALSE, names, flag)
    ELSE Decided(RetryParse(a2, names), RawText(a1.content), TRUE, a2.raises # "none",
                 names, flag)

\* From the agent's output(s) to the turn's assistant message: a1 is the first
\* inference, a2 the corrective one (used only when a1 did not normalize).
AgentDecision(a1, a2, names, flag) ==
    DecideFrom(TryParseToToolCalls(a1.content, names), a1, a2, names, flag)

\* The turn of a decision d: the flag is set, the message sent.
FcDecided(s, d, resp) ==
    FcExchange([s EXCEPT !.auto_commit_next = d.auto_commit_next,
                         !.inferences = d.inferences,
                         !.only_running = @ /\ ~d.raised],
               d.msg, resp)

\* How many FC turns TLC follows.
WithinHorizon ==
    IF profile = "stalling" THEN TRUE
    ELSE IF profile = "deferred" THEN turn < Horizon + 1 ELSE turn < Horizon

\* The synthesized commit_final_answer call exchanged with the flag left set
FcAutoCommittedFlagKept(s, resp) ==
    FcExchange([s EXCEPT !.inferences = 0, !.said = <<>>],
               AssistantMsg("", DefaultCommitCalls), resp)

\* The flag is cleared and the synthesized commit_final_answer call exchanged.
FcAutoCommitted(s, resp) ==
    FcExchange([s EXCEPT !.auto_commit_next = FALSE, !.inferences = 0, !.said = <<>>],
               AssistantMsg("", DefaultCommitCalls), resp)

\* A turn that sends the synthesized commit_final_answer without asking the agent.
FcAutoCommitTurn ==
    /\ pc = "fc"
    /\ BudgetLeft(turn)
    /\ WithinHorizon
    /\ auto_commit_next /\ "commit_final_answer" \in tool_name_set
    /\ \E resp \in InteractResponses(profile, "fc") : Becomes(FcAutoCommitted(Now, resp))

\* The agent was asked, once or twice, and the decision d exchanged.
FcAsked(s, a1, a2, d, resp) ==
    FcDecided([s EXCEPT !.said = IF d.inferences = 2 THEN <<a1, a2>> ELSE <<a1>>], d, resp)

\* The first inference raised and AGENT_FAILED is returned without a cancel
FcAgentRaisedNoCancel(s, a1) ==
    [s EXCEPT
        !.pc = "done", !.turn = @ + 1, !.inferences = 1, !.said = <<a1>>,
        !.only_running = FALSE,
        !.ret = ErrorReturn(AGENT_FAILED,
                            IF a1.raises = "context_limit"
                            THEN "Agent context limit" ELSE "agent error",
                            NoOutput)]

\* The turn's first inference raised: cancel, then the AGENT_FAILED error.
FcAgentRaised(s, a1) ==
    [s EXCEPT
        !.pc = "done", !.turn = @ + 1, !.inferences = 1, !.said = <<a1>>,
        !.n_cancel = @ + 1,
        !.only_running = FALSE,
        !.ret = ErrorReturn(AGENT_FAILED,
                            IF a1.raises = "context_limit"
                            THEN "Agent context limit" ELSE "agent error",
                            NoOutput)]

\* A turn that asks the agent; its first inference raising ends the episode.
FcAgentTurn ==
    /\ pc = "fc"
    /\ BudgetLeft(turn)
    /\ WithinHorizon
    /\ ~(auto_commit_next /\ "commit_final_answer" \in tool_name_set)
    /\ \E a1 \in AgentOutcomes(profile, "fc") :
         IF a1.raises # "none"
         THEN Becomes(FcAgentRaised(Now, a1))
         ELSE \E a2 \in (IF NeedsRetry(a1, tool_name_set) THEN AgentOutcomes(profile, "fc") ELSE {a1}) :
                \E d \in {AgentDecision(a1, a2, tool_name_set, auto_commit_next)},
                   resp \in InteractResponses(profile, "fc") :
                  Becomes(FcAsked(Now, a1, a2, d, resp))

\* The budget is used up: cancel, then the INTERACT_FAILED error.
FcExhausted ==
    /\ pc = "fc"
    /\ ~BudgetLeft(turn)
    /\ Becomes([Now EXCEPT
           !.pc = "done", !.n_cancel = @ + ExhaustedCancels,
           !.ret = ErrorReturn(INTERACT_FAILED, "Exceeded max_turns", NoOutput)])

Next == StartSample \/ LegacyTurn \/ LegacyExit \/ FcAutoCommitTurn \/ FcAgentTurn \/ FcExhausted

Spec == Init /\ [][Next]_vars

\* ------------------------------------------------- helpers on their own

\* Query texts an agent may write.
Queries ==
    {"", "SELECT 1", "  update t set x=1", "Drop table t", "select 'update'", "a|b"}

\* Registries the controller may have advertised.
Registries ==
    {{}, {"execute_sql"}, {"commit_final_answer"}, {"execute_sql", "commit_final_answer"},
     {"bash_action"}}

\* The ways an agent writes an action around a text q: the spellings of an
\* execute_sql call, calls of other and of unknown tools, names that list
\* candidates, objects with several aliases, arguments of every kind.
Forms ==
    {"tool_query", "name_sql", "name_answer", "arguments_query", "arguments_sql",
     "commit_query", "unknown_query", "unknown_answers", "unknown_bare",
     "candidates_first", "candidates_spaced", "candidates_unknown",
     "all_aliases", "sql_and_answer", "query_not_string",
     "arguments_null", "arguments_empty", "arguments_text", "query_number"}

\* The name field of the forms that list candidates, and the candidates in
\* the order the agent listed them.
CandidateName(form) ==
    CASE form = "candidates_first" -> "bash_action|execute_sql|commit_final_answer"
      [] form = "candidates_spaced" -> " commit_final_answer | execute_sql || "
      [] OTHER -> "run_query|submit"

CandidatesOf(form) ==
    CASE form = "candidates_first" -> <<"bash_action", "execute_sql", "commit_final_answer">>
      [] form = "candidates_spaced" -> <<"commit_final_answer", "execute_sql">>
      [] form = "candidates_unknown" -> <<"run_query", "submit">>
      [] OTHER -> <<>>

\* An object with a name and an arguments field.
Call(name, arguments) == JObj(<<KV("name", JStr(name)), KV("arguments", arguments)>>)

\* An execute_sql object without arguments, its top-level fields as given.
Bare(fields) == JObj(<<KV("name", JStr("execute_sql"))>> \o fields)

PayloadOf(form, q) ==
    CASE form = "tool_query" ->
             JObj(<<KV("tool", JStr("execute_sql")), KV("query", JStr(q))>>)
      [] form = "name_sql" -> Bare(<<KV("sql", JStr(q))>>)
      [] form = "name_answer" -> Bare(<<KV("answer", JStr(q))>>)
      [] form = "arguments_query" -> Call("execute_sql", JObj(<<KV("query", JStr(q))>>))
      [] form = "arguments_sql" ->
             JObj(<<KV("name", JStr("execute_sql")),
                    KV("arguments", JObj(<<KV("sql", JStr(q))>>)),
                    KV("query", JStr("SELECT 2"))>>)
      [] form = "commit_query" ->
             Call("commit_final_answer", JObj(<<KV("query", JStr(q))>>))
      [] form = "unknown_query" -> Call("run_query", JObj(<<KV("query", JStr(q))>>))
      [] form = "unknown_answers" ->
             Call("submit", JObj(<<KV("answers", JList(<<JStr(q)>>))>>))
      [] form = "unknown_bare" -> JObj(<<KV("name", JStr("submit")), KV("thought", JStr(q))>>)
      [] form \in {"candidates_first", "candidates_spaced", "candidates_unknown"} ->
             Call(CandidateName(form), JObj(<<KV("query", JStr(q))>>))
      [] form = "all_aliases" ->
             Bare(<<KV("answer", JStr("SELECT 3")), KV("sql", JStr("SELECT 2")),
                    KV("query", JStr(q))>>)
      [] form = "sql_and_answer" ->
             Bare(<<KV("answer", JStr("SELECT 3")), KV("sql", JStr(q))>>)
      [] form = "query_not_string" ->
             Bare(<<KV("query", JNum("5")), KV("answer", JStr("SELECT 3")),
                    KV("sql", JStr(q))>>)
      [] form = "arguments_null" ->
             Bare(<<KV("arguments", JNull), KV("query", JStr(q))>>)
      [] form = "arguments_empty" ->
             Bare(<<KV("arguments", JObj(<<>>)), KV("query", JStr(q))>>)
      [] form = "arguments_text" ->
             Bare(<<KV("arguments", JStr("SELECT 2")), KV("sql", JStr(q))>>)
      [] OTHER -> Call("execute_sql", JObj(<<KV("query", JNum("5")), KV("note", JStr(q))>>))

CallInit ==
    /\ profile = "none"
    /\ Idle
    /\ fn_in = NoCall
    /\ fn_out = NoCall
    /\ calls = NoCalls

\* _normalize_tool_payload called on an agent's object under a registry.
NormalizeCall ==
    /\ fn_in = NoCall
    /\ \E form \in Forms, q \in Queries, names \in Registries :
         /\ fn_in' = [fn |-> "normalize", form |-> form, q |-> q,
                      obj |-> PayloadOf(form, q), names |-> names]
         /\ fn_out' = NormalizeToolPayload(PayloadOf(form, q), names)
    /\ UNCHANGED <<episode, calls>>

\* Tool lists a response may advertise, well-formed entries and entries
\* without a usable name.
ToolLists ==
    {<<>>, BothTools.items, <<ToolNamed("execute_sql")>>,
     <<ToolNamed("bash_action"), ToolNamed("execute_sql"), ToolNamed("bash_action")>>,
     <<ToolNamed(""), JNull, ToolNamed("commit_final_answer")>>,
     <<JObj(<<KV("function", JNull)>>), JObj(<<KV("type", JStr("function"))>>),
       JObj(<<KV("function", JObj(<<KV("description", JStr("no name"))>>))>>)>>}

\* Responses _update_tools may be given.
ToolResponses ==
    {NotADict, JNull, FcQuiet, FcToolMsg,
     JObj(<<Running, KV("tools", JNull)>>),
     JObj(<<Running, KV("tools", JStr("execute_sql"))>>),
     JObj(<<Running, KV("tools", ToolNamed("execute_sql"))>>)}
    \cup {JObj(<<Running, KV("tools", JList(l))>>) : l \in ToolLists}

\* Registries an episode may hold when a response arrives.
HeldTools == {<<>>, BothTools.items, <<ToolNamed("bash_action")>>}

\* _update_tools called on a response while the registry holds a tool list.
UpdateToolsCall ==
    /\ fn_in = NoCall
    /\ \E held \in HeldTools, res_dict \in ToolResponses :
         /\ fn_in' = [fn |-> "update_tools", fc_tools |-> held,
                      tool_name_set |-> ToolNames(held), res_dict |-> res_dict]
         /\ fn_out' = UpdateTools(held, ToolNames(held), res_dict)
    /\ UNCHANGED <<episode, calls>>

\* ---------------------------------------------------------- get_concurrency

\* WorkerStatus.ALIVE as it reads in a worker listing.
WorkerStatus_ALIVE == JNum("0")

\* What a call of get_concurrency ends in: a returned integer or an exception.
Returned(n) == [kind |-> "returned", value |-> n, what |-> ""]

RaisedBy(what) == [kind |-> "raised", value |-> 0, what |-> what]

\* is_alive without the tolerance for letter case and surrounding blanks
IsAliveExact(worker) ==
    LET status == Get(worker, "status")
    IN ValueEq(status, WorkerStatus_ALIVE) \/ (IsStr(status) /\ status.s = "ALIVE")

\* is_alive of one worker entry
IsAlive(worker) ==
    LET status == Get(worker, "status")
    IN ValueEq(status, WorkerStatus_ALIVE)
       \/ (IsStr(status) /\ Upper(Strip(status.s)) = "ALIVE")

\* An alive worker entry lacks capacity or current: worker[...] raises.
RECURSIVE LacksLoad(_)
LacksLoad(workers) ==
    IF workers = <<>> THEN FALSE
    ELSE \/ IsAlive(workers[1].v) /\ ~(Has(workers[1].v, "capacity") /\ Has(workers[1].v, "current"))
         \/ LacksLoad(Tail(workers))

\* The loop over the workers: concurrency += capacity - current when alive.
RECURSIVE Concurrency(_)
Concurrency(workers) ==
    IF workers = <<>> THEN 0
    ELSE (IF IsAlive(workers[1].v)
          THEN IntOf(Get(workers[1].v, "capacity").s) - IntOf(Get(workers[1].v, "current").s)
          ELSE 0) + Concurrency(Tail(workers))

\* get_concurrency of the task name, given the answer to GET /list_workers.
GetConcurrency(name, resp) ==
    IF resp.outcome = "failed" THEN Returned(0)
    ELSE IF resp.status_code # 200 THEN RaisedBy("AgentBenchException")
    ELSE IF ~resp.parses THEN RaisedBy("JSONDecodeError")
    ELSE IF ~Has(resp.json, name) THEN Returned(0)
    ELSE IF ~Has(Get(resp.json, name), "workers") THEN RaisedBy("KeyError")
    ELSE IF LacksLoad(Get(Get(resp.json, name), "workers").items) THEN RaisedBy("KeyError")
    ELSE Returned(Concurrency(Get(Get(resp.json, name), "workers").items))

\* The task names a client may be made for.
TaskNames == {"dbbench", "os"}

\* The status a worker may report; None stands for an entry without status.
WorkerStatuses ==
    {WorkerStatus_ALIVE, JNum("1"), JNum("2"), JStr("ALIVE"), JStr("alive"), JStr(" Alive "),
     JStr("DEAD"), JStr("alive?"), JNull}

Worker(status, capacity, current) ==
    IF status = JNull
    THEN JObj(<<KV("capacity", JNum(capacity)), KV("current", JNum(current))>>)
    ELSE JObj(<<KV("status", status), KV("capacity", JNum(capacity)),
                KV("current", JNum(current))>>)

Listing(name, workers) == JObj(<<KV(name, JObj(<<KV("workers", JObj(workers))>>))>>)

\* The answers GET /list_workers may get.
ListResponses ==
    {NetworkFailure, Answer(500, "boom"), Answer(404, "not found"),
     Answer(200, "<html>"), Ok200(JObj(<<>>)), Ok200(Listing("dbbench", <<>>)),
     Ok200(JObj(<<KV("dbbench", JObj(<<>>))>>)),
     Ok200(Listing("dbbench", <<KV("w1", JObj(<<KV("status", JStr("alive"))>>))>>))}
    \cup {Ok200(Listing("dbbench", <<KV("w1", Worker(s1, "4", "1")), KV("w2", Worker(s2, "2", "3"))>>)) :
             s1 \in WorkerStatuses, s2 \in WorkerStatuses}

\* get_concurrency called by a client of one task.
ConcurrencyCall ==
    /\ fn_in = NoCall
    /\ \E name \in TaskNames, resp \in ListResponses :
         /\ fn_in' = [fn |-> "get_concurrency", name |-> name, resp |-> resp]
         /\ fn_out' = GetConcurrency(name, resp)
    /\ UNCHANGED <<episode, calls>>

\* ------------------------------------------------------------ _maybe_finish

\* The fields a reply may carry; None stands for a field left out.
ReplyStatuses ==
    {JNull, JStr("running"), JStr("completed"), JStr("timeout"), JStr(""), JNum("5")}

ReplyFinishes == {JNull, JTrue, JFalse, JNum("1")}

ReplyOutputs ==
    {JNull, JObj(<<KV("status", JStr("completed")), KV("result", JObj(<<>>))>>)}

\* The object with the fields that are not left out.
Fields(pairs) == JObj(SelectSeq(pairs, LAMBDA p : p.v # JNull))

\* The replies _maybe_finish may be given.
FinishReplies ==
    {NotADict}
    \cup {Fields(<<KV("status", st), KV("finish", fi), KV("output", ou)>>) :
             st \in ReplyStatuses, fi \in ReplyFinishes, ou \in ReplyOutputs}

\* The transcripts an episode may hold when the reply arrives.
HeldTranscripts == {<<>>, <<MUser>>, <<MUser, MTool>>}

\* _maybe_finish called on a reply while the transcript holds some messages.
MaybeFinishCall ==
    /\ fn_in = NoCall
    /\ \E res_dict \in FinishReplies, conv \in HeldTranscripts :
         /\ fn_in' = [fn |-> "maybe_finish", res_dict |-> res_dict, conv |-> conv]
         /\ fn_out' = MaybeFinish(res_dict, conv)
    /\ UNCHANGED <<episode, calls>>

CallNext ==
    \/ NormalizeCall
    \/ UpdateToolsCall
    \/ ConcurrencyCall
    \/ MaybeFinishCall

CallSpec == CallInit /\ [][CallNext]_vars

\* ------------------------------------------------ episodes side by side

\* The run_sample calls that run at the same time on one TaskClient.
Calls == {"first", "second"}

\* The state of a call before its start request, in profile p.
IdleState(p) ==
    [profile |-> p, pc |-> "start", dialect |-> "none", start_resp |-> NoResponse,
     sid |-> NoSid, latest_result |-> JNull, conversation_messages |-> <<>>,
     seen_messages |-> {}, fc_tools |-> <<>>, tool_name_set |-> {},
     auto_commit_next |-> FALSE, turn |-> 0, interact_resp |-> NoResponse,
     ret |-> NoReturn, n_interact |-> 0, n_cancel |-> 0, cancel_resp |-> NoResponse,
     inferences |-> 0,
     said |-> <<>>, last_req |-> NoRequest, only_running |-> TRUE, exchanged |-> <<>>]

\* What the controller and the agent do for calls side by side.
PairStarts == {WithHeaders(Ok200(b), SidOk) : b \in {FcStartBoth}}

PairAgent == {SaysSelect, SaysUpdate}

PairReplies == {Ok200(FcToolMsg), Ok200(FcSqlOnly), Ok200(FcCompleted)}

\* The locals with _seen_messages kept on the TaskClient, one set for all calls
LocalsSharedSeen(cs, c) ==
    [cs[c].live EXCEPT !.seen_messages = UNION {cs[d].live.seen_messages : d \in DOMAIN cs}]

\* The variables call c of run_sample works on: the locals and closure cells
\* of its own invocation.
Locals(cs, c) == cs[c].live

\* Call c goes to state n; alone with the same inputs it would go to m.
PairBecomes(c, n, m) ==
    /\ calls' = [calls EXCEPT ![c] = [live |-> n, solo |-> m]]
    /\ UNCHANGED <<episode, fn_in, fn_out>>

PairInit ==
    /\ profile = "pair"
    /\ Idle
    /\ fn_in = NoCall
    /\ fn_out = NoCall
    /\ calls = [c \in Calls |-> [live |-> IdleState("pair"), solo |-> IdleState("pair")]]

\* One call makes its start request.
PairStart ==
    \E c \in Calls : \E s \in {Locals(calls, c)} :
        /\ s.pc = "start"
        /\ \E resp \in PairStarts :
             PairBecomes(c, Started(s, resp), Started(calls[c].solo, resp))

\* One call takes the turn that sends the synthesized commit_final_answer.
PairAutoCommitTurn ==
    \E c \in Calls : \E s \in {Locals(calls, c)} :
        /\ s.pc = "fc"
        /\ BudgetLeft(s.turn)
        /\ s.turn < Horizon
        /\ s.auto_commit_next /\ "commit_final_answer" \in s.tool_name_set
        /\ \E resp \in PairReplies :
             PairBecomes(c, FcAutoCommitted(s, resp), FcAutoCommitted(calls[c].solo, resp))

\* The turn of a call that asks the agent, from state s.
PairAsked(s, a1, resp) ==
    IF a1.raises # "none" THEN FcAgentRaised(s, a1)
    ELSE FcAsked(s, a1, a1, AgentDecision(a1, a1, s.tool_name_set, s.auto_commit_next), resp)

\* One call takes a turn that asks the agent.
PairAgentTurn ==
    \E c \in Calls : \E s \in {Locals(calls, c)} :
        /\ s.pc = "fc"
        /\ BudgetLeft(s.turn)
        /\ s.turn < Horizon
        /\ ~(s.auto_commit_next /\ "commit_final_answer" \in s.tool_name_set)
        /\ \E a1 \in PairAgent, resp \in PairReplies :
             PairBecomes(c, PairAsked(s, a1, resp), PairAsked(calls[c].solo, a1, resp))

PairNext == PairStart \/ PairAutoCommitTurn \/ PairAgentTurn

PairSpec == PairInit /\ [][PairNext]_vars

\* ----------------------------------------------------------------- claims

\* The last interact request was answered with a status other than 200.
InteractRefused == interact_resp.outcome = "answered" /\ interact_resp.status_code # 200

\* C1: in an FC episode whose every interact was answered 200 without a
\* completion signal and whose agent never raised, run_sample has sent one
\* interact per turn and no cancel while it runs, and when it has returned it
\* has sent exactly max_turns interact requests, then exactly one cancel, and
\* returned the INTERACT_FAILED error.
C1_BudgetExhaustion ==
    /\ (dialect = "fc" /\ only_running /\ pc = "fc") =>
           (n_interact = turn /\ turn <= max_turns /\ n_cancel = 0)
    /\ (dialect = "fc" /\ only_running /\ pc = "done") =>
           /\ n_interact = max_turns
           /\ n_cancel = 1
           /\ ret.kind = "error" /\ ret.error = INTERACT_FAILED

C1_Witness == dialect = "fc" /\ only_running /\ pc = "done" /\ turn = max_turns

\* C2: in every episode, legacy or FC, whatever the controller replies, the
\* number of interact requests is at most max_turns (200).
C2_TurnBound == n_interact <= max_turns

\* C3: when an interact request was answered with a non-200 status, run_sample
\* has returned the INTERACT_FAILED error carrying the response body, never a
\* success outcome.
C3_RefusedIsInteractFailed ==
    InteractRefused =>
        (pc = "done" /\ ret.kind = "error" /\ ret.error = INTERACT_FAILED
         /\ ret.info = interact_resp.text)

\* C4: when an interact request was answered with a non-200 status, the episode
\* has ended and has sent no cancel request if the body contains "session not
\* found" in any letter case, exactly one otherwise; in the legacy loop, on an
\* agent turn and on an auto-commit turn alike.
C4_CancelsAfterRefusal ==
    InteractRefused =>
        /\ pc = "done"
        /\ n_cancel = IF Contains(Lower(interact_resp.text), "session not found")
                      THEN 0 ELSE 1

\* An auto-commit turn refused with the phrase in capitals.
C4_Witness ==
    /\ InteractRefused /\ dialect = "fc" /\ inferences = 0 /\ turn = 2
    /\ interact_resp.text = "Error: Session Not Found"
    /\ n_cancel = 0

\* C5: when an interact request could not be sent, in either dialect, the
\* episode has returned NETWORK_ERROR and exactly one cancel request was sent.
C5_NetworkFailureCancels ==
    interact_resp.outcome = "failed" =>
        (pc = "done" /\ ret.kind = "error" /\ ret.error = NETWORK_ERROR /\ n_cancel = 1)

\* The episode ended at the start request: nothing was asked of the agent and
\* neither interact nor cancel was sent.
EndedAtStart(error) ==
    /\ pc = "done" /\ dialect = "none" /\ sid = NoSid
    /\ ret.kind = "error" /\ ret.error = error
    /\ turn = 0 /\ inferences = 0 /\ n_interact = 0 /\ n_cancel = 0

\* C6: when start_sample answered 406, run_sample has returned NOT_AVAILABLE
\* with no agent inference, no interact request and no cancel request.
C6_NotAvailable ==
    (start_resp.outcome = "answered" /\ start_resp.status_code = 406) =>
        EndedAtStart(NOT_AVAILABLE)

C6_Witness == start_resp.status_code = 406 /\ pc = "done" /\ ret.info = "busy"

\* C7: a start request that could not be sent ends the episode with
\* NETWORK_ERROR; a status other than 200 and 406, a body that does not parse,
\* a missing session-id header and a session-id header that is no integer end
\* it with START_FAILED; no agent inference, interact or cancel follows.
C7_StartFailuresTyped ==
    /\ start_resp.outcome = "failed" => EndedAtStart(NETWORK_ERROR)
    /\ (start_resp.outcome = "answered" /\ start_resp.status_code \notin {200, 406}) =>
           EndedAtStart(START_FAILED)
    /\ (start_resp.outcome = "answered" /\ start_resp.status_code = 200) =>
           /\ ~start_resp.parses => EndedAtStart(START_FAILED)
           /\ ~Truthy(SidHeader(start_resp.headers)) => EndedAtStart(START_FAILED)
           /\ (Truthy(SidHeader(start_resp.headers))
               /\ ~IsIntText(SidHeader(start_resp.headers).s)) => EndedAtStart(START_FAILED)

\* A 200 whose first session-id header is no integer.
C7_Witness ==
    /\ start_resp.status_code = 200 /\ start_resp.parses /\ start_resp.headers = SidNotInt
    /\ pc = "done" /\ ret.error = START_FAILED

\* C8: the transcript is append-only: over every step, the transcript before
\* the step is a prefix of the transcript after it.
C8_AppendOnly ==
    [][/\ Len(conversation_messages) <= Len(conversation_messages')
       /\ SubSeq(conversation_messages', 1, Len(conversation_messages))
              = conversation_messages]_vars

\* A transcript that grew at the start and in each of two turns.
C8_Witness == turn = 2 /\ Len(conversation_messages) >= 4

\* m with its keys in the opposite order: the same value, another text.
Reordered(m) ==
    [m EXCEPT !.items = [i \in 1..Len(m.items) |-> m.items[Len(m.items) + 1 - i]]]

\* The transcript after its own entries, keys reordered, are added once more.
ReAdded ==
    AddMessages(conversation_messages, seen_messages,
                [i \in 1..Len(conversation_messages) |-> Reordered(conversation_messages[i])])

TerminalStatus(body) ==
    IsDict(body) /\ Truthy(Get(body, "status")) /\ Get(body, "status") # JStr("running")

\* The outcome returned carries the transcript log as result.messages.
ReturnsTranscript ==
    /\ ret.kind = "output" /\ ret.output.present
    /\ Get(ret.output.result, "messages") = JList(exchanged)

ReplyIsDict ==
    /\ interact_resp.outcome = "answered" /\ interact_resp.status_code = 200
    /\ interact_resp.parses /\ IsDict(interact_resp.json)

\* C11: an FC reply with a status other than running, with finish = true or
\* with an embedded output ends the episode in a success result whose payload
\* carries the full transcript as result.messages.
C11_CompletionSignalsAttachTranscript ==
    (/\ dialect = "fc" /\ ReplyIsDict
     /\ \/ TerminalStatus(interact_resp.json)
        \/ Get(interact_resp.json, "finish") = JTrue
        \/ Has(interact_resp.json, "output")) =>
        (pc = "done" /\ ReturnsTranscript)

\* The function part of the tool call in the last interact request, None when
\* the request carried no tool call.
SentCall ==
    IF last_req.kind = "messages" /\ IsList(Get(last_req.body, "tool_calls"))
    THEN Get(Get(last_req.body, "tool_calls").items[1], "function")
    ELSE JNull

\* The last request called tool name.
SentCallTo(name) == IsDict(SentCall) /\ Get(SentCall, "name") = JStr(name)

\* The arguments text of a call whose first argument is query.
QueryArgumentsPrefix == "{\"query\": \""

\* The last request was an execute_sql call whose query, leading blanks
\* aside, starts with a mutating keyword in any letter case.
SentMutatingSql ==
    /\ SentCallTo("execute_sql")
    /\ StartsWith(Get(SentCall, "arguments").s, QueryArgumentsPrefix)
    /\ \E kw \in {"UPDATE", "INSERT", "DELETE", "CREATE", "DROP", "ALTER", "REPLACE",
                  "TRUNCATE"} :
          StartsWith(Upper(LStrip(SubSeq(Get(SentCall, "arguments").s,
                                         Len(QueryArgumentsPrefix) + 1,
                                         Len(Get(SentCall, "arguments").s)))), kw)

\* The last request was commit_final_answer with arguments {"answers": [""]}.
SentDefaultCommit ==
    /\ SentCallTo("commit_final_answer")
    /\ Get(SentCall, "arguments") = JStr("{\"answers\": [\"\"]}")
    /\ Get(last_req.body, "content") = JStr("")

\* C12: when the last FC turn sent a mutating execute_sql call, the episode
\* goes on, commit_final_answer is in the registry and a turn is left, the
\* next step sends commit_final_answer with {"answers": [""]} and asks the
\* agent nothing.
C12_AutoCommitFollows ==
    [][(/\ pc = "fc" /\ SentMutatingSql
        /\ "commit_final_answer" \in tool_name_set
        /\ turn < max_turns) =>
           (/\ n_interact' = n_interact + 1
            /\ inferences' = 0
            /\ SentDefaultCommit')]_vars

\* The second turn was the synthesized commit after an UPDATE in the first.
C12_Witness ==
    /\ dialect = "fc" /\ turn = 2 /\ n_interact = 2 /\ inferences = 0
    /\ SentDefaultCommit
    /\ \E i \in 1..Len(conversation_messages) :
          Contains(Dumps(conversation_messages[i], FALSE), "update t set")

\* The agent returned a text with no JSON in it: nothing can be normalized.
NotNormalizable(a) ==
    a.raises = "none" /\ \A i \in 1..Len(a.content) : ~a.content[i].json

\* This step is an FC agent turn whose first output could not be normalized.
FirstOutputFailed ==
    /\ pc = "fc" /\ turn' = turn + 1
    /\ Len(said') >= 1 /\ NotNormalizable(said'[1])

\* This step is an FC agent turn whose output and corrective output both
\* could not be normalized.
BothOutputsFailed ==
    /\ FirstOutputFailed
    /\ Len(said') = 2 /\ NotNormalizable(said'[2])

\* C13: an FC turn whose first agent output cannot be normalized asks the
\* agent exactly once more; when the second output cannot be normalized either
\* and commit_final_answer is in the registry, the turn sends
\* commit_final_answer with {"answers": [""]} and does not fail with
\* AGENT_FAILED.
C13_RetryThenDefaultCommit ==
    [][FirstOutputFailed =>
           /\ inferences' = 2 /\ Len(said') = 2
           /\ (BothOutputsFailed /\ "commit_final_answer" \in tool_name_set) =>
                  /\ n_interact' = n_interact + 1
                  /\ SentDefaultCommit'
                  /\ ret'.error # AGENT_FAILED]_vars

\* Two texts without JSON, then the default commit went out.
C13_Witness ==
    /\ dialect = "fc" /\ Len(said) = 2
    /\ NotNormalizable(said[1]) /\ NotNormalizable(said[2])
    /\ SentDefaultCommit /\ pc = "fc"

\* C14: an FC turn whose output and corrective output both cannot be
\* normalized, with no commit_final_answer in the registry, ends the episode
\* with AGENT_FAILED and sends no interact request.
C14_NoFallbackFails ==
    [][(BothOutputsFailed /\ "commit_final_answer" \notin tool_name_set) =>
           (/\ pc' = "done"
            /\ ret'.kind = "error" /\ ret'.error = AGENT_FAILED
            /\ n_interact' = n_interact)]_vars

\* C15: in an FC episode AGENT_FAILED is returned only when no
\* commit_final_answer fallback exists: a first agent call that raises (an
\* error or the context limit) with commit_final_answer in the registry is
\* followed by one corrective call and the default commit, not by AGENT_FAILED.
C15_AgentFailuresHandledLocally ==
    /\ (pc = "done" /\ dialect = "fc" /\ ret.kind = "error" /\ ret.error = AGENT_FAILED) =>
           "commit_final_answer" \notin tool_name_set
    /\ (dialect = "fc" /\ Len(said) >= 1 /\ said[1].raises # "none"
        /\ "commit_final_answer" \in tool_name_set) =>
           (inferences = 2 /\ SentDefaultCommit)

\* The three alias spellings of an execute_sql action.
AliasForms == {"tool_query", "name_sql", "name_answer"}

\* C16: {tool: execute_sql, query: q}, {name: execute_sql, sql: q} and
\* {name: execute_sql, answer: q} normalize to the same result under the same
\* registry, and to execute_sql with arguments {query: q} when the registry is
\* empty or knows execute_sql.
C16_AliasesNormalizeAlike ==
    (fn_in.fn = "normalize" /\ fn_in.form \in AliasForms) =>
        /\ fn_out.ok
        /\ \A other \in AliasForms :
              fn_out = NormalizeToolPayload(PayloadOf(other, fn_in.q), fn_in.names)
        /\ (fn_in.names = {} \/ "execute_sql" \in fn_in.names) =>
              /\ fn_out.name = "execute_sql"
              /\ fn_out.arguments = JObj(<<KV("query", JStr(fn_in.q))>>)

\* The answer alias under a registry that knows execute_sql.
C16_Witness ==
    /\ fn_in.fn = "normalize" /\ fn_in.form = "name_answer"
    /\ fn_in.q = "SELECT 1" /\ "execute_sql" \in fn_in.names
    /\ fn_out.arguments = JObj(<<KV("query", JStr("SELECT 1"))>>)

\* The start response contains an output field.
StartHasOutput ==
    /\ start_resp.outcome = "answered"
    /\ IsDict(start_resp.json)
    /\ \E i \in 1..Len(start_resp.json.items) : start_resp.json.items[i].k = "output"

\* C17: the loop is chosen from the start response alone, legacy exactly when
\* it contains an output field, and every interact request has the shape of
\* that loop: agent_response in a legacy episode, messages in an FC episode.
C17_DialectFromStart ==
    [][/\ pc' = "legacy" => StartHasOutput'
       /\ pc' = "fc" => ~StartHasOutput'
       /\ dialect # "none" => dialect' = dialect
       /\ n_interact' > n_interact =>
             /\ dialect' = IF StartHasOutput' THEN "legacy" ELSE "fc"
             /\ last_req'.kind = IF StartHasOutput' THEN "agent_response"
                                 ELSE "messages"]_vars

\* An FC episode whose reply embedded an output: the request was FC-shaped.
C17_Witness ==
    /\ dialect = "fc" /\ ~StartHasOutput
    /\ ReplyIsDict /\ Has(interact_resp.json, "output")
    /\ last_req.kind = "messages" /\ n_interact >= 2

\* The last legacy turn met a failure: the agent raised, or the interact
\* request could not be sent.
LegacyTurnFailed ==
    /\ dialect = "legacy"
    /\ \/ said # <<>> /\ said[1].raises # "none"
       \/ interact_resp.outcome = "failed"

\* C18: in the legacy loop an agent failure (a generic error or the context
\* limit) or a network failure ends the episode with an error result, so that
\* no interact request follows it.
C18_LegacyFailureEnds ==
    LegacyTurnFailed => (pc = "done" /\ ret.kind = "error")

\* The last interact response had status 200 and a body that is not JSON.
ReplyUnparseable ==
    /\ interact_resp.outcome = "answered" /\ interact_resp.status_code = 200
    /\ ~interact_resp.parses

\* C19: a 200 interact response whose body cannot be parsed ends run_sample
\* with an INTERACT_FAILED result, not an exception, after one cancel request.
C19_UnparseableReplyIsInteractFailed ==
    ReplyUnparseable =>
        (/\ pc = "done" /\ ret.kind = "error" /\ ret.error = INTERACT_FAILED
         /\ n_cancel = 1)

\* v is a status text outside the recognized values.
OddStatus(v) == IsStr(v) /\ v.s # "" /\ v.s \notin SampleStatusValues

\* The last body taken from the controller reports an unrecognized status:
\* at the top level in an FC episode, inside output in a legacy episode.
ReportedOddStatus ==
    /\ IsDict(latest_result)
    /\ \/ dialect = "fc" /\ OddStatus(Get(latest_result, "status"))
       \/ /\ dialect = "legacy" /\ IsDict(Get(latest_result, "output"))
          /\ OddStatus(Get(Get(latest_result, "output"), "status"))

\* C20: when the controller reports a terminal status that is not a
\* recognized value, in either dialect, run_sample ends with an outcome whose
\* status is unknown; it neither raises nor returns an error.
C20_OddStatusIsUnknown ==
    (pc = "done" /\ ReportedOddStatus) =>
        (ret.kind = "output" /\ ret.output.present /\ ret.output.status = "unknown")

\* The tools field of a response when it is a list, None otherwise.
AdvertisedList(res_dict) ==
    IF res_dict.t = "obj"
       /\ \E i \in 1..Len(res_dict.items) :
             res_dict.items[i].k = "tools" /\ res_dict.items[i].v.t = "list"
    THEN Get(res_dict, "tools")
    ELSE JNull

\* The non-empty function names of a tool list.
FunctionNames(tools) ==
    {n \in {"execute_sql", "commit_final_answer", "bash_action"} :
        \E i \in 1..Len(tools) :
            Get(Get(tools[i], "function"), "name") = JStr(n)}

TaskListed ==
    /\ fn_in.resp.outcome = "answered" /\ fn_in.resp.status_code = 200
    /\ fn_in.resp.parses
    /\ \E i \in 1..Len(fn_in.resp.json.items) : fn_in.resp.json.items[i].k = fn_in.name

\* C22: get_concurrency returns an integer whatever the controller does
\* (unreachable, a status other than 200, a listing without the task name),
\* and returns 0 when the controller is unreachable or the task name is absent.
C22_ConcurrencyNeverFails ==
    (/\ fn_in.fn = "get_concurrency"
     /\ \/ fn_in.resp.outcome = "failed"
        \/ fn_in.resp.status_code # 200
        \/ fn_in.resp.parses /\ ~TaskListed) =>
        (/\ fn_out.kind = "returned"
         /\ (fn_in.resp.outcome = "failed" \/ fn_in.resp.status_code = 200) => fn_out.value = 0)

\* The worker reports the canonical ALIVE value, or a string that reads alive
\* once surrounding blanks are dropped and letter case is ignored.
ReportsAlive(worker) ==
    \E i \in 1..Len(worker.items) :
        /\ worker.items[i].k = "status"
        /\ \/ worker.items[i].v = WorkerStatus_ALIVE
           \/ /\ worker.items[i].v.t = "str"
              /\ Lower(Strip(worker.items[i].v.s)) = "alive"

\* capacity - current of a worker entry.
FreeSlots(worker) == IntOf(Get(worker, "capacity").s) - IntOf(Get(worker, "current").s)

\* The sum of capacity - current over the entries that report alive.
RECURSIVE AliveSum(_)
AliveSum(workers) ==
    IF workers = <<>> THEN 0
    ELSE AliveSum(SubSeq(workers, 1, Len(workers) - 1))
         + (IF ReportsAlive(workers[Len(workers)].v)
            THEN FreeSlots(workers[Len(workers)].v) ELSE 0)

\* The listing names the task and every worker entry has capacity and current.
WellFormedListing ==
    /\ TaskListed
    /\ Has(Get(fn_in.resp.json, fn_in.name), "workers")
    /\ \A i \in 1..Len(Get(Get(fn_in.resp.json, fn_in.name), "workers").items) :
          LET w == Get(Get(fn_in.resp.json, fn_in.name), "workers").items[i].v
          IN Has(w, "capacity") /\ Has(w, "current")

\* C23: when the task is in a successful worker listing, get_concurrency
\* returns the sum of capacity - current over exactly the workers whose status
\* is the canonical ALIVE value or a string equal to alive ignoring case and
\* surrounding blanks; every other worker adds nothing.
C23_SumsAliveWorkers ==
    (fn_in.fn = "get_concurrency" /\ WellFormedListing) =>
        (/\ fn_out.kind = "returned"
         /\ fn_out.value = AliveSum(Get(Get(fn_in.resp.json, fn_in.name), "workers").items))

\* A worker reporting " Alive " with 3 free slots next to a dead one.
C23_Witness ==
    /\ fn_in.fn = "get_concurrency" /\ WellFormedListing
    /\ Get(Get(Get(Get(fn_in.resp.json, fn_in.name), "workers"), "w1"), "status") = JStr(" Alive ")
    /\ Get(Get(Get(Get(fn_in.resp.json, fn_in.name), "workers"), "w2"), "status") = JStr("DEAD")
    /\ fn_out = Returned(3)

\* The per-episode state of a call: transcript, seen-message set, tool
\* registry and auto-commit flag.
EpisodeState(s) ==
    <<s.conversation_messages, s.seen_messages, s.fc_tools, s.tool_name_set,
      s.auto_commit_next>>

\* C24: with several run_sample calls interleaved on one TaskClient, the
\* transcript, seen-message set, tool registry and auto-commit flag of every
\* call are what the call's own agent outputs and controller responses make
\* them when it runs alone.
C24_EpisodesShareNothing ==
    \A c \in DOMAIN calls : EpisodeState(calls[c].live) = EpisodeState(calls[c].solo)

\* Two calls under way at once, in different states: the first is one turn in
\* with the auto-commit flag set, the second two turns in with one tool left.
C24_Witness ==
    /\ DOMAIN calls = Calls
    /\ calls["first"].live.pc = "fc" /\ calls["first"].live.turn = 1
    /\ calls["first"].live.auto_commit_next
    /\ calls["second"].live.pc = "fc" /\ calls["second"].live.turn = 2
    /\ calls["second"].live.tool_name_set = {"execute_sql"}
    /\ ~calls["second"].live.auto_commit_next
    /\ Len(calls["second"].live.conversation_messages) > Len(calls["first"].live.conversation_messages)

\* The last cancel request failed: it could not be sent or was refused.
CancelFailed ==
    \/ cancel_resp.outcome = "failed"
    \/ cancel_resp.outcome = "answered" /\ cancel_resp.status_code # 200

\* C25: a step of run_sample that sends the cancel request returns the same
\* result whatever the cancel request comes back with (accepted, refused, not
\* sent), and that result is a return value, never an exception.
C25_CancelFailureUnseen ==
    [][n_cancel' > n_cancel =>
          /\ ret'.kind \in {"error", "output"}
          /\ \A resp \in CancelResponses : Cancel(Now, resp)'.ret = ret']_vars

\* An FC episode ended by a refused interact whose cancel could not be sent.
C25_Witness ==
    /\ pc = "done" /\ dialect = "fc" /\ n_cancel = 1
    /\ cancel_resp.outcome = "failed"
    /\ InteractRefused
    /\ ret.kind = "error" /\ ret.error = INTERACT_FAILED /\ ret.info = interact_resp.text

\* C26: a turn that sends commit_final_answer without asking the agent comes
\* right after a turn that sent a mutating execute_sql call, never two or more
\* turns after it.
C26_AutoCommitOnlyNextTurn ==
    [][(pc = "fc" /\ n_interact' = n_interact + 1 /\ inferences' = 0) =>
          SentMutatingSql]_vars

\* The text begins, leading blanks and letter case aside, with a keyword that
\* changes the database.
BeginsMutating(text) ==
    \E kw \in {"update", "insert", "delete", "create", "drop", "alter", "replace",
               "truncate"} :
        /\ Len(LStrip(text)) >= Len(kw)
        /\ Lower(SubSeq(LStrip(text), 1, Len(kw))) = kw

\* The query argument of the normalized call is a string.
HasQueryText ==
    \E i \in 1..Len(fn_out.arguments.items) :
        fn_out.arguments.items[i].k = "query" /\ fn_out.arguments.items[i].v.t = "str"

\* C27: the normalizer sets the follow-up signal exactly when the resolved
\* name is execute_sql and its query argument begins, leading blanks and
\* letter case aside, with UPDATE, INSERT, DELETE, CREATE, DROP, ALTER,
\* REPLACE or TRUNCATE; never for another tool, never for a SELECT.
C27_FollowUpSignal ==
    (fn_in.fn = "normalize" /\ fn_out.ok) =>
        (fn_out.should_auto_commit <=>
            /\ fn_out.name = "execute_sql"
            /\ HasQueryText
            /\ BeginsMutating(Get(fn_out.arguments, "query").s))

\* An unknown tool with a lower-case, indented update, redirected to
\* execute_sql: the signal is set.
C27_Witness ==
    /\ fn_in.fn = "normalize" /\ fn_in.form = "unknown_query"
    /\ fn_in.q = "  update t set x=1"
    /\ fn_out.name = "execute_sql" /\ fn_out.should_auto_commit

\* The name the agent gave, for the forms whose name lists no known candidate.
GivenName(form) ==
    CASE form = "commit_query" -> "commit_final_answer"
      [] form = "unknown_query" -> "run_query"
      [] form \in {"unknown_answers", "unknown_bare"} -> "submit"
      [] form = "candidates_unknown" -> "run_query|submit"
      [] OTHER -> "execute_sql"

\* The call is one whose resolved name the non-empty registry does not know.
NameUnknown ==
    /\ fn_in.fn = "normalize"
    /\ fn_in.form \notin {"candidates_first", "candidates_spaced"}
    /\ fn_in.names # {}
    /\ GivenName(fn_in.form) \notin fn_in.names

\* The answers the agent gave in its arguments, the default [""] when none.
AnswersOrDefault ==
    IF fn_in.form = "unknown_answers" THEN JList(<<JStr(fn_in.q)>>) ELSE JList(<<JStr("")>>)

\* C28: a resolved name that a non-empty registry does not know is redirected
\* to execute_sql when the registry has it and a string query argument was
\* resolved, otherwise to commit_final_answer (answers defaulting to [""])
\* when the registry has it; and whenever the registry contains
\* commit_final_answer, the normalized call names a tool of the registry.
C28_RedirectToKnownTool ==
    /\ NameUnknown =>
          /\ fn_out.ok
          /\ IF "execute_sql" \in fn_in.names /\ HasQueryText
             THEN fn_out.name = "execute_sql"
             ELSE IF "commit_final_answer" \in fn_in.names
             THEN /\ fn_out.name = "commit_final_answer"
                  /\ Get(fn_out.arguments, "answers") = AnswersOrDefault
             ELSE fn_out.name = GivenName(fn_in.form)
    /\ (fn_in.fn = "normalize" /\ "commit_final_answer" \in fn_in.names) =>
          (fn_out.ok /\ fn_out.name \in fn_in.names)

\* An unknown tool without a query under a registry of both tools: the call
\* becomes commit_final_answer with answers [""].
C28_Witness ==
    /\ NameUnknown /\ fn_in.form = "unknown_bare"
    /\ fn_in.names = {"execute_sql", "commit_final_answer"}
    /\ fn_out.name = "commit_final_answer"
    /\ fn_out.arguments = JObj(<<KV("answers", JList(<<JStr("")>>))>>)

\* The call's name lists candidates and the registry is not empty.
CandidateCall ==
    /\ fn_in.fn = "normalize"
    /\ CandidatesOf(fn_in.form) # <<>>
    /\ fn_in.names # {}

\* The places, in the agent's list, of the candidates the registry knows.
KnownPlaces ==
    {i \in 1..Len(CandidatesOf(fn_in.form)) : CandidatesOf(fn_in.form)[i] \in fn_in.names}

\* C29: when the name is a |-delimited list of candidates and the registry is
\* not empty, the name resolves to the first candidate, in the agent's order,
\* that the registry knows; a candidate the registry does not know is never
\* the resolved name.
C29_FirstKnownCandidate ==
    CandidateCall =>
        /\ fn_out.ok
        /\ \A i \in KnownPlaces :
              (\A j \in KnownPlaces : i <= j) => fn_out.name = CandidatesOf(fn_in.form)[i]
        /\ \A i \in 1..Len(CandidatesOf(fn_in.form)) :
              i \notin KnownPlaces => fn_out.name # CandidatesOf(fn_in.form)[i]

\* "bash_action|execute_sql|commit_final_answer" under a registry of the last
\* two tools resolves to execute_sql, the second candidate.
C29_Witness ==
    /\ CandidateCall /\ fn_in.form = "candidates_first"
    /\ fn_in.names = {"execute_sql", "commit_final_answer"}
    /\ fn_out.name = "execute_sql"

\* The value of field k of object d when it is there, None otherwise.
FieldOf(d, k) ==
    IF d.t = "obj" /\ \E i \in 1..Len(d.items) : d.items[i].k = k
    THEN d.items[CHOOSE i \in 1..Len(d.items) : d.items[i].k = k].v
    ELSE JNull

\* The call is an execute_sql action: by name, or by tool when name is absent.
SqlAction ==
    /\ fn_in.fn = "normalize"
    /\ \/ FieldOf(fn_in.obj, "name") = JStr("execute_sql")
       \/ FieldOf(fn_in.obj, "name") = JNull /\ FieldOf(fn_in.obj, "tool") = JStr("execute_sql")

\* The first of the top-level fields query, sql, answer that is a string.
FirstAlias ==
    IF FieldOf(fn_in.obj, "query").t = "str" THEN FieldOf(fn_in.obj, "query")
    ELSE IF FieldOf(fn_in.obj, "sql").t = "str" THEN FieldOf(fn_in.obj, "sql")
    ELSE IF FieldOf(fn_in.obj, "answer").t = "str" THEN FieldOf(fn_in.obj, "answer")
    ELSE JNull

\* The query the arguments field itself carries: its query, else its sql.
OwnQuery ==
    IF FieldOf(FieldOf(fn_in.obj, "arguments"), "query") # JNull
    THEN FieldOf(FieldOf(fn_in.obj, "arguments"), "query")
    ELSE FieldOf(FieldOf(fn_in.obj, "arguments"), "sql")

\* C30: for an execute_sql action without an arguments field (absent or
\* None), the query argument is the first of the top-level fields query, sql,
\* answer that is a string; with an arguments field, the query argument is
\* what that field carries and no top-level alias is used.
C30_AliasPriority ==
    SqlAction =>
        /\ fn_out.ok
        /\ FieldOf(fn_out.arguments, "query") =
              IF FieldOf(fn_in.obj, "arguments") = JNull THEN FirstAlias ELSE OwnQuery

\* query, sql and answer all given: query wins.
C30_Witness ==
    /\ SqlAction /\ fn_in.form = "all_aliases" /\ fn_in.q = "Drop table t"
    /\ FieldOf(fn_in.obj, "sql") = JStr("SELECT 2")
    /\ FieldOf(fn_out.arguments, "query") = JStr("Drop table t")

\* C31: an episode sends at most one cancel request, none before start gave
\* it a session id, and none when it returns a success outcome.
C31_CancelDiscipline ==
    /\ n_cancel <= 1
    /\ n_cancel >= 1 => sid # NoSid
    /\ (pc = "done" /\ ret.kind = "output") => n_cancel = 0

\* The body carries a completion signal: a status other than running, or
\* finish = true.
CompletionSignal(body) ==
    /\ body.t = "obj"
    /\ \/ TerminalStatus(body)
       \/ \E i \in 1..Len(body.items) : body.items[i].k = "finish" /\ body.items[i].v = JTrue

\* C32: once a controller response of the episode, the start response
\* included, carried a completion signal, the loop asks the agent nothing
\* more and sends no further interact request.
C32_NothingAfterCompletion ==
    [][(CompletionSignal(start_resp.json) \/ CompletionSignal(interact_resp.json)) =>
          /\ n_interact' = n_interact
          /\ turn' = turn
          /\ said' = said]_vars

\* C33: the step in which an episode ends with AGENT_FAILED sends exactly one
\* cancel request, the only one of the episode, and no interact request.
C33_AgentFailedCancelsOnce ==
    [][(ret.kind = "none" /\ ret'.kind = "error" /\ ret'.error = AGENT_FAILED) =>
          /\ n_cancel = 0 /\ n_cancel' = 1
          /\ n_interact' = n_interact]_vars

\* An FC episode whose second turn's first inference hit the context limit.
C33_Witness ==
    /\ pc = "done" /\ dialect = "fc" /\ turn = 2
    /\ ret.kind = "error" /\ ret.error = AGENT_FAILED
    /\ said = <<Raises("context_limit")>>
    /\ n_cancel = 1 /\ n_interact = 1

\* The reply's status when it is a non-empty value other than running, None
\* otherwise.
EndingStatus ==
    IF FieldOf(fn_in.res_dict, "status") \in {JNull, JStr(""), JStr("running")}
    THEN JNull ELSE FieldOf(fn_in.res_dict, "status")

\* The outcome with a status and the reply as result, transcript attached.
EndsWith(status) ==
    /\ fn_out.kind = "output" /\ fn_out.output.present
    /\ fn_out.output.status = status
    /\ FieldOf(fn_out.output.result, "messages") = JList(fn_in.conv)

AssistantPlaces(conv) ==
    {i \in 1..Len(conv) : FieldOf(conv[i], "role") = JStr("assistant")}

\* msg is value-equal to an entry of the transcript conv.
InTranscript(conv, msg) == \E i \in 1..Len(conv) : ValueEq(conv[i], msg)

\* C35: in an FC episode every assistant message sent in an interact request
\* is value-equal to an entry of the transcript; a message value-equal to an
\* entry already there is sent all the same and adds no assistant entry, so
\* the transcript may hold fewer assistant entries than requests were sent.
C35_SentMessageInTranscript ==
    [][(dialect = "fc" /\ n_interact' = n_interact + 1) =>
          /\ last_req'.kind = "messages"
          /\ InTranscript(conversation_messages', last_req'.body)
          /\ Cardinality(AssistantPlaces(conversation_messages')) <= n_interact'
          /\ InTranscript(conversation_messages, last_req'.body) =>
                AssistantPlaces(conversation_messages')
                    = AssistantPlaces(conversation_messages)]_vars

\* Two requests with the same assistant message: one assistant entry.
C35_Witness ==
    /\ dialect = "fc" /\ n_interact = 2
    /\ Cardinality(AssistantPlaces(conversation_messages)) = 1
    /\ InTranscript(conversation_messages, last_req.body)

\* The function called by the request req, JNull when it calls none.
CallOf(req) ==
    IF req.kind = "messages" /\ IsList(Get(req.body, "tool_calls"))
    THEN Get(Get(req.body, "tool_calls").items[1], "function")
    ELSE JNull

\* The query text at the head of the arguments text, as far as the text goes.
QueryTextOf(text) == SubSeq(text, Len(QueryArgumentsPrefix) + 1, Len(text))

\* call is an execute_sql call whose query begins with a mutating keyword.
IsMutatingSqlCall(call) ==
    /\ IsDict(call) /\ Get(call, "name") = JStr("execute_sql")
    /\ StartsWith(Get(call, "arguments").s, QueryArgumentsPrefix)
    /\ BeginsMutating(QueryTextOf(Get(call, "arguments").s))

\* A step that is an auto-commit turn: a request sent, the agent not asked.
AutoCommitStep == pc = "fc" /\ n_interact' = n_interact + 1 /\ inferences' = 0

\* A step that is an agent turn: the agent asked, its message sent or the
\* episode ended by the inference that raised.
AgentTurnStep ==
    /\ pc = "fc" /\ inferences' >= 1
    /\ n_interact' = n_interact + 1 \/ (pc' = "done" /\ said' # said)

\* C36: an auto-commit turn finds the pending flag set and leaves it cleared,
\* and it uses up a turn of the budget like an agent turn; the flag is raised
\* only by an agent turn that sent a mutating execute_sql, so after an
\* auto-commit turn no second one comes before such an agent turn; agent
\* turns and auto-commit turns together never number more than max_turns.
C36_AutoCommitCountsAndClears ==
    [][/\ AutoCommitStep =>
             /\ auto_commit_next /\ ~auto_commit_next'
             /\ "commit_final_answer" \in tool_name_set
       /\ (AutoCommitStep \/ AgentTurnStep) => (turn' = turn + 1 /\ turn' <= max_turns)
       /\ (pc = "fc" /\ ~auto_commit_next /\ auto_commit_next') =>
             /\ AgentTurnStep /\ n_interact' = n_interact + 1
             /\ \E call \in {CallOf(last_req')} : IsMutatingSqlCall(call)
       /\ (pc = "fc" /\ inferences = 0 /\ n_interact >= 1 /\ n_interact' = n_interact + 1) =>
             inferences' >= 1]_vars

\* An auto-commit turn was made as the second turn and the episode goes on.
C36_Witness ==
    /\ pc = "fc" /\ turn = 2 /\ n_interact = 2 /\ inferences = 0
    /\ SentDefaultCommit /\ ~auto_commit_next
====
